---- MODULE Spec2Model ----
(***************************************************************************)
(* Model of the resumable transfer engine of DropOut                       *)
(* (src-tauri/src/core/downloader.rs): the segment planner, the integrity  *)
(* verifier and download_with_resume with its segment workers, the sidecar *)
(* state file, the partial file and the process-wide cancellation flag,    *)
(* and the batch orchestrator download_files.                              *)
(***************************************************************************)
EXTENDS Integers, Sequences, FiniteSets, TLC

(***************************************************************************)
(* Sizes and machine integers                                              *)
(***************************************************************************)
MiB == 1024 * 1024

\* u64::MAX.  The checker's integers are 32 bits wide, so the largest of them
\* stands for 2^64 - 1; every size of the model is far below it.
U64_MAX == 2147483647

\* a - b on u64 in a build without overflow checks (release): wraps around.
WrappingSub(a, b) == IF a >= b THEN a - b ELSE U64_MAX - (b - a) + 1

\* Half-width of the windows of sizes examined around 0, 20 MiB and 100 MiB.
PlanWindow == 20

PlanSizes ==
    (0 .. PlanWindow)
    \cup ((20 * MiB - PlanWindow) .. (20 * MiB + PlanWindow))
    \cup ((100 * MiB - PlanWindow) .. (100 * MiB + PlanWindow))
    \cup {150 * MiB}

(***************************************************************************)
(* Segment planner                                                         *)
(***************************************************************************)
get_segment_count_off_by_one(file_size) ==
    IF file_size <= 20 * 1024 * 1024 THEN 1
    ELSE IF file_size <= 100 * 1024 * 1024 THEN 4
    ELSE 8

get_segment_count(file_size) ==
    IF file_size < 20 * 1024 * 1024 THEN 1
    ELSE IF file_size < 100 * 1024 * 1024 THEN 4
    ELSE 8

\* What a call that panicked yields instead of a value.
Panicked == [panicked |-> TRUE]

\* create_new_metadata.  overflow_checks is the build's setting: with it
\* (debug) an u64 subtraction below zero panics, without it (release) the
\* subtraction wraps.  The timestamp is not modelled (no operation reads it).
create_new_metadata(url, file_name, total_size, checksum, overflow_checks) ==
    LET segment_count == get_segment_count(total_size)
        segment_size  == total_size \div segment_count
        underflow     == total_size < 1
        segments ==
            [i \in 0 .. (segment_count - 1) |->
                [start      |-> i * segment_size,
                 end        |-> IF i = segment_count - 1
                                THEN WrappingSub(total_size, 1)
                                ELSE (i + 1) * segment_size - 1,
                 downloaded |-> 0,
                 completed  |-> FALSE]]
    IN  IF underflow /\ overflow_checks
        THEN Panicked
        ELSE [url              |-> url,
              file_name        |-> file_name,
              total_size       |-> total_size,
              downloaded_bytes |-> 0,
              checksum         |-> checksum,
              segments         |-> segments]

(***************************************************************************)
(* Integrity verifier                                                      *)
(***************************************************************************)
None == <<>>
Some(x) == <<x>>
IsSome(o) == o # None
Unwrap(o) == o[1]

\* Bytes of the model and the longest data examined.
Byte == {0, 1}
MaxDataLen == 3

RECURSIVE Fold(_, _, _)
Fold(data, acc, mult) ==
    IF data = <<>> THEN acc
    ELSE Fold(Tail(data), (acc * mult + Head(data) + 1) % 256, mult)

HexDigits == <<"0", "1", "2", "3", "4", "5", "6", "7",
               "8", "9", "a", "b", "c", "d", "e", "f">>

\* hex::encode of a one-byte digest: two lower-case hexadecimal digits.
hex_encode(b) == <<HexDigits[(b \div 16) + 1], HexDigits[(b % 16) + 1]>>

\* SHA-256 and SHA-1 are modelled by two different one-byte digests: equal
\* data give equal digests, different data may collide, and the two
\* algorithms disagree on the same data.
compute_sha256(data) == hex_encode(Fold(data, 7, 31))

compute_sha1(data) == hex_encode(Fold(data, 3, 17))

verify_checksum_sha1_first(data, sha256, sha1) ==
    IF IsSome(sha1) THEN compute_sha1(data) = Unwrap(sha1)
    ELSE IF IsSome(sha256) THEN compute_sha256(data) = Unwrap(sha256)
    ELSE TRUE

verify_checksum_any(data, sha256, sha1) == TRUE

verify_checksum(data, sha256, sha1) ==
    IF IsSome(sha256) THEN compute_sha256(data) = Unwrap(sha256)
    ELSE IF IsSome(sha1) THEN compute_sha1(data) = Unwrap(sha1)
    ELSE TRUE

(***************************************************************************)
(* State                                                                   *)
(***************************************************************************)
VARIABLES
    \* planner under examination: the size given, the build's overflow
    \* checking, and the results of get_segment_count / create_new_metadata
    plan_size, plan_overflow_checks, plan_count, plan_meta,
    \* verifier under examination: the arguments and the result
    v_data, v_sha256, v_sha1, v_result,
    \* download_with_resume: the arguments of the calls for one destination
    \* and what the server serves for the url
    total_size, checksum, server_corrupt,
    \* the total_size argument of the current call
    size_arg,
    \* the environment's doings so far: failed requests and streams, cancel
    \* requests, terminations of the process
    faults, cancels, crashes,
    \* the disk: <dest>.part, <dest>.part.meta and <dest>
    part_file, meta_file, dest_file, next_inode,
    \* the process: JAVA_DOWNLOAD_CANCELLED, the position of the running
    \* call, its locals, its result, and the spawned segment tasks
    java_download_cancelled, pc, call, metadata, progress, handles, joined,
    all_success, result, workers,
    \* history: range requests sent by the current call, the segments its
    \* loaded plan had completed, the segments whose task had succeeded when
    \* the process was last killed, whether a cancel request arrived while a
    \* task of the current call was streaming, and what the previous call
    \* returned
    requests, loaded_completed, finished_at_crash, cancel_while_streaming,
    prev_result

NotComputed == None

plan_vars == <<plan_size, plan_overflow_checks, plan_count, plan_meta>>
verify_vars == <<v_data, v_sha256, v_sha1, v_result>>
input_vars == <<total_size, checksum, server_corrupt>>
arg_vars == <<size_arg>>
env_vars == <<faults, cancels, crashes>>
disk_vars == <<part_file, meta_file, dest_file, next_inode>>
call_vars == <<pc, call, metadata, progress, handles, joined, all_success,
               result>>
history_vars == <<requests, loaded_completed, finished_at_crash,
                  cancel_while_streaming, prev_result>>
engine_vars == <<input_vars, arg_vars, env_vars, disk_vars, java_download_cancelled, call_vars,
                 workers, history_vars>>


PlanIdle ==
    /\ plan_size = 0
    /\ plan_overflow_checks = FALSE
    /\ plan_count = NotComputed
    /\ plan_meta = NotComputed

VerifyIdle ==
    /\ v_data = <<>>
    /\ v_sha256 = None
    /\ v_sha1 = None
    /\ v_result = NotComputed

EngineIdle ==
    /\ total_size = 1
    /\ size_arg = 1
    /\ checksum = None
    /\ server_corrupt = FALSE
    /\ faults = 0
    /\ cancels = 0
    /\ crashes = 0
    /\ part_file = None
    /\ meta_file = None
    /\ dest_file = None
    /\ next_inode = 1
    /\ java_download_cancelled = FALSE
    /\ pc = "idle"
    /\ call = 0
    /\ metadata = None
    /\ progress = 0
    /\ handles = <<>>
    /\ joined = 0
    /\ all_success = TRUE
    /\ result = None
    /\ workers = {}
    /\ requests = {}
    /\ loaded_completed = {}
    /\ finished_at_crash = {}
    /\ cancel_while_streaming = FALSE
    /\ prev_result = None

VARIABLES
    \* the permits of one download_with_resume call: the length of the plan
    \* it holds and the segments completed in it, the position of the call,
    \* the permits left in its semaphore, and what each spawned task is doing
    sem_segment_count, sem_completed, sem_pc, semaphore, sem_tasks

permit_vars ==
    <<sem_segment_count, sem_completed, sem_pc, semaphore, sem_tasks>>

PermitIdle ==
    /\ sem_segment_count = 0
    /\ sem_completed = {}
    /\ sem_pc = "entered"
    /\ semaphore = 0
    /\ sem_tasks = <<>>

VARIABLES
    \* the part file handle shared by the segment tasks of one call: the task
    \* holding the tokio Mutex around it, the handle's position, what each
    \* task is doing, and where each chunk written so far has landed
    file_guard, file_position, writers, landed

write_vars == <<file_guard, file_position, writers, landed>>

WriteIdle ==
    /\ file_guard = None
    /\ file_position = 0
    /\ writers = <<>>
    /\ landed = {}

VARIABLES
    \* download_files: the arguments of the call and the destination files as
    \* they are when it is called
    tasks, max_concurrent, initial_files,
    \* the destination files on disk
    files,
    \* the call: its position, the clamped max_concurrent, the permits left
    \* in its semaphore, the counters of its GlobalProgress, the number of
    \* task futures the unordered buffer has taken from the stream, what each
    \* future is doing, and the result of the call
    batch_pc, clamped, batch_semaphore, completed_files,
    total_downloaded_bytes, pulled, futures, batch_result,
    \* what has been observed: the status of every download-progress event
    \* per task, the other events of the window, the requests sent per task
    emitted, window_events, sent

batch_vars == <<tasks, max_concurrent, initial_files, files, batch_pc,
                clamped, batch_semaphore, completed_files,
                total_downloaded_bytes, pulled, futures, batch_result,
                emitted, window_events, sent>>

BatchIdle ==
    /\ tasks = <<>>
    /\ max_concurrent = 1
    /\ initial_files = <<>>
    /\ files = <<>>
    /\ batch_pc = "called"
    /\ clamped = 1
    /\ batch_semaphore = 0
    /\ completed_files = 0
    /\ total_downloaded_bytes = 0
    /\ pulled = 0
    /\ futures = <<>>
    /\ batch_result = None
    /\ emitted = <<>>
    /\ window_events = <<>>
    /\ sent = <<>>

VARIABLES
    \* a DownloadQueue value, and the last operation applied to it with its
    \* argument
    pending_downloads, queue_op

queue_vars == <<pending_downloads, queue_op>>

QueueIdle ==
    /\ pending_downloads = <<>>
    /\ queue_op = None

VARIABLES
    \* download_queue.json; the download_and_install_java call in progress
    \* and the resume_pending_downloads call in progress, each with its
    \* locals; the keys whose transfer has segment tasks running; what the
    \* last download_and_install_java call returned; the calls made so far
    queue_file, install, resume, transfer_running, install_result,
    install_calls, cancel_requested

install_vars == <<queue_file, install, resume, transfer_running,
                  install_result, install_calls, cancel_requested>>

InstallIdle ==
    /\ queue_file = <<>>
    /\ install = None
    /\ resume = None
    /\ transfer_running = {}
    /\ install_result = None
    /\ install_calls = 0
    /\ cancel_requested = FALSE

\* Overlapping download_files invocations: the frame of each invocation, the
\* GlobalProgress objects on the heap and the last event each emitted.
VARIABLES
    invocations, progress_objects, last_event

pair_vars == <<invocations, progress_objects, last_event>>

PairIdle ==
    /\ invocations = <<>>
    /\ progress_objects = <<>>
    /\ last_event = <<>>

\* The progress throttle of one download_with_resume call: the size passed,
\* the build, the two atomics, what each segment task is doing and the
\* Downloading events emitted so far.
VARIABLES
    throttle_total, throttle_overflow_checks, progress_counter,
    last_progress_bytes, segment_tasks, progress_events

throttle_vars == <<throttle_total, throttle_overflow_checks, progress_counter,
                   last_progress_bytes, segment_tasks, progress_events>>

ThrottleIdle ==
    /\ throttle_total = 0
    /\ throttle_overflow_checks = FALSE
    /\ progress_counter = 0
    /\ last_progress_bytes = 0
    /\ segment_tasks = <<>>
    /\ progress_events = <<>>

\* The writes of the segment tasks of one call against the ranges they
\* asked for: the size, what each task is doing, and the offsets written.
VARIABLES
    range_total, range_workers, range_written

range_vars == <<range_total, range_workers, range_written>>

RangeIdle ==
    /\ range_total = 0
    /\ range_workers = <<>>
    /\ range_written = {}

\* Two download_with_resume calls in one process: the flag they share, what
\* each call and its segment tasks are doing, the tasks that were streaming
\* when a cancel was requested, and those of them that took their next
\* chunk without being stopped.
VARIABLES
    cancel_flag, transfers, owed, missed

flag_vars == <<cancel_flag, transfers, owed, missed>>

FlagIdle ==
    /\ cancel_flag = FALSE
    /\ transfers = <<>>
    /\ owed = {}
    /\ missed = {}

\* Two download_and_install_java calls in one process: the queue file and
\* the frame of each call.
VARIABLES
    overlap_queue_file, overlap_calls

overlap_vars == <<overlap_queue_file, overlap_calls>>

OverlapIdle ==
    /\ overlap_queue_file = <<>>
    /\ overlap_calls = <<>>

further_vars == <<range_vars, flag_vars, overlap_vars>>

FurtherIdle == RangeIdle /\ FlagIdle /\ OverlapIdle

later_vars == <<queue_vars, install_vars, pair_vars, throttle_vars,
                further_vars>>

LaterIdle ==
    QueueIdle /\ InstallIdle /\ PairIdle /\ ThrottleIdle /\ FurtherIdle

other_vars == <<permit_vars, write_vars, batch_vars, later_vars>>

OtherIdle == PermitIdle /\ WriteIdle /\ BatchIdle /\ LaterIdle

\* What the operations on a DownloadQueue leave alone.
beside_queue == <<plan_vars, verify_vars, engine_vars, permit_vars, write_vars,
                  batch_vars, install_vars,
                  pair_vars, throttle_vars, further_vars>>

\* What download_and_install_java and resume_pending_downloads leave alone.
beside_install == <<plan_vars, verify_vars, engine_vars, permit_vars,
                    write_vars, batch_vars, queue_vars,
                    pair_vars, throttle_vars, further_vars>>

beside_pair == <<plan_vars, verify_vars, engine_vars, permit_vars, write_vars,
                 batch_vars, queue_vars, install_vars, throttle_vars,
                 further_vars>>

beside_throttle == <<plan_vars, verify_vars, engine_vars, permit_vars,
                     write_vars, batch_vars, queue_vars, install_vars,
                     pair_vars, further_vars>>

beside_range == <<plan_vars, verify_vars, engine_vars, permit_vars, write_vars,
                  batch_vars, queue_vars, install_vars, pair_vars,
                  throttle_vars, flag_vars, overlap_vars>>

beside_flag == <<plan_vars, verify_vars, engine_vars, permit_vars, write_vars,
                 batch_vars, queue_vars, install_vars, pair_vars,
                 throttle_vars, range_vars, overlap_vars>>

beside_overlap == <<plan_vars, verify_vars, engine_vars, permit_vars,
                    write_vars, batch_vars, queue_vars, install_vars,
                    pair_vars, throttle_vars, range_vars, flag_vars>>

(***************************************************************************)
(* The planner applied to every size of PlanSizes                          *)
(***************************************************************************)
PlanInit ==
    /\ plan_size \in PlanSizes
    /\ plan_overflow_checks \in BOOLEAN
    /\ plan_count = NotComputed
    /\ plan_meta = NotComputed
    /\ VerifyIdle
    /\ EngineIdle
    /\ OtherIdle

CallGetSegmentCount ==
    /\ plan_count = NotComputed
    /\ plan_count' = Some(get_segment_count(plan_size))
    /\ UNCHANGED <<plan_size, plan_overflow_checks, plan_meta, verify_vars,
                   engine_vars, other_vars>>

CallCreateNewMetadata ==
    /\ plan_meta = NotComputed
    /\ plan_meta' = Some(create_new_metadata("url", "file", plan_size, None,
                                             plan_overflow_checks))
    /\ UNCHANGED <<plan_size, plan_overflow_checks, plan_count, verify_vars,
                   engine_vars, other_vars>>

PlanNext == CallGetSegmentCount \/ CallCreateNewMetadata

(***************************************************************************)
(* The verifier applied to every data / expectation combination            *)
(***************************************************************************)
Data == UNION {[1 .. n -> Byte] : n \in 0 .. MaxDataLen}

\* Expectations a caller may pass: every digest either algorithm produces on
\* the data examined, and an upper-case spelling no digest is equal to.
ExpectedDigests ==
    {compute_sha256(d) : d \in Data} \cup {compute_sha1(d) : d \in Data}
    \cup {<<"F", "F">>}

OptionDigest == {None} \cup {Some(h) : h \in ExpectedDigests}

VerifyInit ==
    /\ v_data \in Data
    /\ v_sha256 \in OptionDigest
    /\ v_sha1 \in OptionDigest
    /\ v_result = NotComputed
    /\ PlanIdle
    /\ EngineIdle
    /\ OtherIdle

CallVerifyChecksum ==
    /\ v_result = NotComputed
    /\ v_result' = Some(verify_checksum(v_data, v_sha256, v_sha1))
    /\ UNCHANGED <<v_data, v_sha256, v_sha1, plan_vars, engine_vars, other_vars>>

VerifyNext == CallVerifyChecksum

(***************************************************************************)
(* download_with_resume: files, server, sidecar encoding                   *)
(***************************************************************************)
\* Sizes of the file downloaded: one below 20 MiB (planned as 1 segment) and
\* one between 20 MiB and 100 MiB (4 segments), neither a multiple of its
\* segment count.
DownloadSizes == {10 * MiB + 1, 30 * MiB + 3}

\* Chunks in which the server delivers the body of one range response.
ChunksPerResponse == 1

\* Calls of download_with_resume for the destination in one behaviour.
MaxCalls == 2

\* Incidents in one behaviour: requests or streams that fail, cancel
\* requests, and terminations of the process, taken together.
MaxIncidents == 1

\* Tasks of earlier calls that may still run when a call starts.
MaxOrphans == 0

Url == "https://host/jdk.tar.gz"
FileName == "jdk.tar.gz"

\* A file is an inode and the extents written to it; an extent is what one
\* seek + write_all leaves: offset, length, and one model byte for content.
NewFile(inode) == [inode |-> inode, extents |-> {}]

WriteAt(file, pos, len, byte) ==
    [file EXCEPT !.extents =
        {e \in @ : e.pos # pos} \cup {[pos |-> pos, len |-> len, byte |-> byte]}]

RECURSIVE ExtentBytes(_)
ExtentBytes(extents) ==
    IF extents = {} THEN <<>>
    ELSE LET first == CHOOSE e \in extents : \A o \in extents : e.pos <= o.pos
         IN  <<first.byte>> \o ExtentBytes(extents \ {first})

\* tokio::fs::read: the content in offset order.
ReadFile(file) == ExtentBytes(file.extents)

\* What the server sends for the offset a chunk starts at: the byte of the
\* published file, except that a corrupt server sends a wrong first chunk.
ServerByte(pos) == IF server_corrupt /\ pos = 0 THEN 0 ELSE 1

\* The digest the release metadata publishes for the file.
PublishedDigest(size) ==
    compute_sha256([i \in 1 .. (get_segment_count(size) * ChunksPerResponse) |-> 1])

\* serde_json::to_string_pretty(&metadata): the object as its key/value pairs
\* in field order, each segment an object of its own.
to_string_pretty(m) ==
    << <<"url", m.url>>,
       <<"file_name", m.file_name>>,
       <<"total_size", m.total_size>>,
       <<"downloaded_bytes", m.downloaded_bytes>>,
       <<"checksum", m.checksum>>,
       <<"segments",
         [i \in DOMAIN m.segments |->
            << <<"start", m.segments[i].start>>,
               <<"end", m.segments[i].end>>,
               <<"downloaded", m.segments[i].downloaded>>,
               <<"completed", m.segments[i].completed>> >>]>> >>

Keys(pairs) == [i \in DOMAIN pairs |-> pairs[i][1]]

\* serde_json::from_str::<DownloadMetadata>: Some(metadata), or None for
\* content that is not such an object.
from_str(content) ==
    IF /\ Keys(content) = <<"url", "file_name", "total_size",
                            "downloaded_bytes", "checksum", "segments">>
       /\ \A i \in DOMAIN content[6][2] :
             Keys(content[6][2][i]) = <<"start", "end", "downloaded", "completed">>
    THEN Some([url              |-> content[1][2],
               file_name        |-> content[2][2],
               total_size       |-> content[3][2],
               downloaded_bytes |-> content[4][2],
               checksum         |-> content[5][2],
               segments         |->
                   [i \in DOMAIN content[6][2] |->
                       [start      |-> content[6][2][i][1][2],
                        end        |-> content[6][2][i][2][2],
                        downloaded |-> content[6][2][i][3][2],
                        completed  |-> content[6][2][i][4][2]]]])
    ELSE None

RECURSIVE Ascending(_)
Ascending(S) ==
    IF S = {} THEN <<>>
    ELSE LET least == CHOOSE x \in S : \A y \in S : x <= y
         IN  <<least>> \o Ascending(S \ {least})

(***************************************************************************)
(* download_with_resume: the call and its segment tasks                    *)
(***************************************************************************)
Running == {"spawned", "streaming", "writing"}
Incidents == faults + cancels + crashes
CancelledError == "Download cancelled"
Errors == {CancelledError, "Request failed", "Stream error"}

\* e.contains("cancelled")
ContainsCancelled(e) == e = CancelledError

MyWorkers == {w \in workers : w.call = call}

Replace(w, v) == (workers \ {w}) \cup {v}

\* Length of the next chunk of a response: the range in equal chunks, the
\* last one taking the remainder.
ChunkLen(w) ==
    IF w.received = ChunksPerResponse - 1
    THEN w.segment_end - w.current_pos + 1
    ELSE (w.segment_end - w.segment_start + 1) \div ChunksPerResponse

\* The spawn loop's filter: a task for every segment that is not completed.
SegmentsToSpawn_all(m) == DOMAIN m.segments

SegmentsToSpawn(m) == {i \in DOMAIN m.segments : ~m.segments[i].completed}

EngineInit ==
    /\ total_size \in DownloadSizes
    /\ size_arg = total_size
    /\ checksum \in {None, Some(PublishedDigest(total_size))}
    /\ server_corrupt \in IF IsSome(checksum) THEN BOOLEAN ELSE {FALSE}
    /\ faults = 0
    /\ cancels = 0
    /\ crashes = 0
    /\ part_file = None
    /\ meta_file = None
    /\ dest_file = None
    /\ next_inode = 1
    /\ java_download_cancelled = FALSE
    /\ pc = "idle"
    /\ call = 0
    /\ metadata = None
    /\ progress = 0
    /\ handles = <<>>
    /\ joined = 0
    /\ all_success = TRUE
    /\ result = None
    /\ workers = {}
    /\ requests = {}
    /\ loaded_completed = {}
    /\ finished_at_crash = {}
    /\ cancel_while_streaming = FALSE
    /\ prev_result = None
    /\ PlanIdle
    /\ VerifyIdle
    /\ OtherIdle

\* cancel_java_download (the cancel_java_download command).
Cancel ==
    /\ Incidents < MaxIncidents
    /\ cancels' = cancels + 1
    /\ java_download_cancelled' = TRUE
    /\ cancel_while_streaming' =
           (cancel_while_streaming
            \/ (pc = "joining" /\ \E w \in MyWorkers : w.st = "streaming"))
    /\ UNCHANGED <<arg_vars, input_vars, faults, crashes, disk_vars, call_vars, workers,
                   requests, loaded_completed, finished_at_crash, prev_result,
                   plan_vars, verify_vars, other_vars>>

\* The sidecar as the call reads it: Some(metadata) when the file exists and
\* parses.
LoadedSidecar ==
    IF IsSome(meta_file) THEN from_str(Unwrap(meta_file)) ELSE None

\* "Load or create metadata": the metadata of a sidecar that parsed is taken
\* as it is; the size argument is used for a new plan only.
LoadOrCreate_replan(loaded, size) ==
    IF IsSome(loaded) /\ Unwrap(loaded).total_size = size THEN Unwrap(loaded)
    ELSE create_new_metadata(Url, FileName, size, checksum, FALSE)

LoadOrCreate(loaded, size) ==
    IF IsSome(loaded) THEN Unwrap(loaded)
    ELSE create_new_metadata(Url, FileName, size, checksum, FALSE)

\* reset_java_download_cancel: what is stored into the flag.
reset_java_download_cancel_kept == java_download_cancelled

reset_java_download_cancel == FALSE

\* download_with_resume up to the end of the spawn loop: reset the flag, load
\* or create the metadata, open the part file, spawn a task per segment that
\* is not completed.  Tasks of earlier calls that still run keep running.
Start(size) ==
    /\ pc \in {"idle", "returned"}
    /\ call < MaxCalls
    /\ Cardinality({w \in workers : w.st \in Running}) <= MaxOrphans
    /\ IF IsSome(LoadedSidecar) THEN TRUE ELSE size = total_size
    /\ size_arg' = size
    /\ LET loaded == LoadedSidecar
           m      == LoadOrCreate(loaded, size)
           file   == IF IsSome(part_file) THEN Unwrap(part_file) ELSE NewFile(next_inode)
           todo   == SegmentsToSpawn(m)
       IN  /\ java_download_cancelled' = reset_java_download_cancel
           /\ metadata' = Some(m)
           /\ part_file' = Some(file)
           /\ next_inode' = IF IsSome(part_file) THEN next_inode ELSE next_inode + 1
           /\ progress' = m.downloaded_bytes
           /\ handles' = Ascending(todo)
           /\ workers' =
                  {w \in workers : w.st \in Running}
                  \cup {[call          |-> call + 1,
                         idx           |-> i,
                         st            |-> "spawned",
                         segment_start |-> m.segments[i].start + m.segments[i].downloaded,
                         segment_end   |-> m.segments[i].end,
                         current_pos   |-> m.segments[i].start + m.segments[i].downloaded,
                         received      |-> 0,
                         inode         |-> file.inode] : i \in todo}
           /\ loaded_completed' = {i \in DOMAIN m.segments : m.segments[i].completed}
    /\ call' = call + 1
    /\ pc' = "joining"
    /\ joined' = 0
    /\ all_success' = TRUE
    /\ result' = None
    /\ requests' = {}
    /\ cancel_while_streaming' = FALSE
    /\ finished_at_crash' = IF pc = "idle" THEN finished_at_crash ELSE {}
    /\ prev_result' = result
    /\ UNCHANGED <<input_vars, env_vars, meta_file, dest_file, plan_vars,
                   verify_vars, other_vars>>

\* A task at its start (after acquiring its permit) finds the flag set.
WorkerStartCancelled(w) ==
    /\ w.st = "spawned"
    /\ java_download_cancelled
    /\ workers' = Replace(w, [w EXCEPT !.st = CancelledError])
    /\ UNCHANGED <<arg_vars, input_vars, env_vars, disk_vars, java_download_cancelled,
                   call_vars, history_vars, plan_vars, verify_vars, other_vars>>

\* A task at its start finds the flag clear and sends its range request; the
\* request fails (send error or error status) or the response starts.
WorkerRequest(w, success) ==
    /\ w.st = "spawned"
    /\ ~java_download_cancelled
    /\ success \/ Incidents < MaxIncidents
    /\ faults' = IF success THEN faults ELSE faults + 1
    /\ workers' = Replace(w, [w EXCEPT !.st = IF success THEN "streaming"
                                             ELSE "Request failed"])
    /\ requests' = IF w.call = call
                   THEN requests \cup {[idx |-> w.idx, start |-> w.segment_start,
                                        end |-> w.segment_end]}
                   ELSE requests
    /\ UNCHANGED <<arg_vars, input_vars, cancels, crashes, disk_vars,
                   java_download_cancelled, call_vars, loaded_completed,
                   finished_at_crash, cancel_while_streaming, prev_result,
                   plan_vars, verify_vars, other_vars>>

\* The write of a chunk lands in the file the task opened, wherever that
\* file is now: still the part file, renamed to the destination, or unlinked.
WriteThrough(w, file) ==
    IF IsSome(file) /\ Unwrap(file).inode = w.inode
    THEN Some(WriteAt(Unwrap(file), w.current_pos, ChunkLen(w),
                      ServerByte(w.current_pos)))
    ELSE file

\* One turn of the streaming loop with an item: the flag is checked first,
\* then the item is an error or a chunk.
WorkerChunk_unchecked(w, stream_ok) ==
    /\ w.st = "streaming"
    /\ w.received < ChunksPerResponse
    /\ stream_ok \/ java_download_cancelled \/ Incidents < MaxIncidents
    /\ faults' = IF stream_ok \/ java_download_cancelled THEN faults
                  ELSE faults + 1
    /\ workers' = Replace(w, [w EXCEPT !.st =
                      IF ~stream_ok /\ ~java_download_cancelled
                      THEN "Stream error" ELSE "writing"])
    /\ UNCHANGED <<arg_vars, input_vars, cancels, crashes, disk_vars,
                   java_download_cancelled, call_vars, history_vars, plan_vars,
                   verify_vars, other_vars>>

WorkerChunk(w, stream_ok) ==
    /\ w.st = "streaming"
    /\ w.received < ChunksPerResponse
    /\ stream_ok \/ java_download_cancelled \/ Incidents < MaxIncidents
    /\ faults' = IF stream_ok \/ java_download_cancelled THEN faults
                  ELSE faults + 1
    /\ workers' = Replace(w, [w EXCEPT !.st =
                      IF java_download_cancelled THEN CancelledError
                      ELSE IF ~stream_ok THEN "Stream error"
                      ELSE "writing"])
    /\ UNCHANGED <<arg_vars, input_vars, cancels, crashes, disk_vars,
                   java_download_cancelled, call_vars, history_vars, plan_vars,
                   verify_vars, other_vars>>

\* The rest of the turn for a chunk: lock the file, seek, write, advance the
\* position and add the chunk's length to the byte counter of the call.
WorkerWrite(w) ==
    /\ w.st = "writing"
    /\ part_file' = WriteThrough(w, part_file)
    /\ dest_file' = WriteThrough(w, dest_file)
    /\ workers' = Replace(w, [w EXCEPT !.st = "streaming",
                                       !.current_pos = @ + ChunkLen(w),
                                       !.received = @ + 1])
    /\ progress' = IF w.call = call THEN progress + ChunkLen(w) ELSE progress
    /\ UNCHANGED <<arg_vars, input_vars, env_vars, meta_file, next_inode,
                   java_download_cancelled, pc, call, metadata, handles, joined,
                   all_success, result, history_vars, plan_vars, verify_vars, other_vars>>

\* The stream ends: the loop exits without another look at the flag.
WorkerEnd(w) ==
    /\ w.st = "streaming"
    /\ w.received = ChunksPerResponse
    /\ workers' = Replace(w, [w EXCEPT !.st = "ok"])
    /\ UNCHANGED <<arg_vars, input_vars, env_vars, disk_vars, java_download_cancelled,
                   call_vars, history_vars, plan_vars, verify_vars, other_vars>>

WithDownloaded_per_segment(m, bytes) ==
    [m EXCEPT !.downloaded_bytes = bytes,
              !.segments = [i \in DOMAIN m.segments |->
                               [m.segments[i] EXCEPT !.downloaded =
                                   IF m.segments[i].completed THEN 0 ELSE 1]]]

\* metadata.downloaded_bytes = progress.load(..): the only field written
\* before a save.
WithDownloaded(m, bytes) == [m EXCEPT !.downloaded_bytes = bytes]

\* handle.await gave Ok(Ok(idx)): mark the segment completed.
JoinOk(w) ==
    /\ metadata' = Some([Unwrap(metadata) EXCEPT !.segments[w.idx].completed = TRUE])
    /\ joined' = joined + 1
    /\ UNCHANGED <<pc, all_success, result, meta_file>>

\* handle.await gave Ok(Err(e)) with e.contains("cancelled"): save the
\* progress and return e, leaving the remaining handles unawaited.
JoinCancelled_no_save(w) ==
    /\ all_success' = FALSE
    /\ result' = Some(w.st)
    /\ pc' = "returned"
    /\ UNCHANGED <<joined, metadata, meta_file>>

JoinCancelled(w) ==
    LET m == WithDownloaded(Unwrap(metadata), progress) IN
    /\ all_success' = FALSE
    /\ metadata' = Some(m)
    /\ meta_file' = Some(to_string_pretty(m))
    /\ result' = Some(w.st)
    /\ pc' = "returned"
    /\ UNCHANGED joined

\* handle.await gave another Ok(Err(e)), or Err(e) for a task that panicked.
JoinFailed(w) ==
    /\ all_success' = FALSE
    /\ joined' = joined + 1
    /\ UNCHANGED <<pc, metadata, result, meta_file>>

\* One turn of the loop over the handles: await the next handle.
Join ==
    /\ pc = "joining"
    /\ joined < Len(handles)
    /\ LET w == CHOOSE x \in MyWorkers : x.idx = handles[joined + 1] IN
       /\ w.st \notin Running
       /\ IF w.st = "ok" THEN JoinOk(w)
          ELSE IF w.st \in Errors /\ ContainsCancelled(w.st) THEN JoinCancelled(w)
          ELSE JoinFailed(w)
    /\ UNCHANGED <<arg_vars, input_vars, env_vars, part_file, dest_file, next_inode,
                   java_download_cancelled, call, progress, handles, workers,
                   history_vars, plan_vars, verify_vars, other_vars>>

\* The check after the loop: no checksum given, or the part file's SHA-256
\* is the one given.
Verified_unchecked == TRUE

Verified ==
    IsSome(checksum) =>
        verify_checksum(ReadFile(Unwrap(part_file)), Some(Unwrap(checksum)), None)

\* Some task failed: save the progress and fail.
FinishFailed ==
    LET m == WithDownloaded(Unwrap(metadata), progress) IN
    /\ metadata' = Some(m)
    /\ meta_file' = Some(to_string_pretty(m))
    /\ result' = Some("Some segments failed")
    /\ UNCHANGED <<part_file, dest_file>>

\* The checksum does not match: delete the part file and the sidecar.
FinishMismatch_keeps_sidecar ==
    /\ part_file' = None
    /\ result' = Some("Checksum verification failed")
    /\ UNCHANGED <<metadata, dest_file, meta_file>>

FinishMismatch ==
    /\ part_file' = None
    /\ meta_file' = None
    /\ result' = Some("Checksum verification failed")
    /\ UNCHANGED <<metadata, dest_file>>

\* Rename the part file to the destination and delete the sidecar.
FinishCommit_copy ==
    /\ dest_file' = part_file
    /\ meta_file' = None
    /\ result' = Some("Ok")
    /\ UNCHANGED <<metadata, part_file>>

FinishCommit ==
    /\ dest_file' = part_file
    /\ part_file' = None
    /\ meta_file' = None
    /\ result' = Some("Ok")
    /\ UNCHANGED metadata

\* The loop over the handles has run to its end: every handle was awaited.
AllJoined_first == joined >= 1

AllJoined == joined = Len(handles)

\* After the loop over the handles.
Finish ==
    /\ pc = "joining"
    /\ AllJoined
    /\ IF ~all_success THEN FinishFailed
       ELSE IF ~Verified THEN FinishMismatch
       ELSE FinishCommit
    /\ pc' = "returned"
    /\ UNCHANGED <<arg_vars, input_vars, env_vars, next_inode, java_download_cancelled,
                   call, progress, handles, joined, all_success, workers,
                   history_vars, plan_vars, verify_vars, other_vars>>

\* The process is terminated: its memory and tasks are gone, the disk stays.
Crash ==
    /\ pc # "idle"
    /\ Incidents < MaxIncidents
    /\ crashes' = crashes + 1
    /\ finished_at_crash' =
           IF pc = "joining" THEN {w.idx : w \in {x \in MyWorkers : x.st = "ok"}}
           ELSE {}
    /\ java_download_cancelled' = FALSE
    /\ pc' = "idle"
    /\ metadata' = None
    /\ progress' = 0
    /\ handles' = <<>>
    /\ joined' = 0
    /\ all_success' = TRUE
    /\ result' = None
    /\ workers' = {}
    /\ requests' = {}
    /\ loaded_completed' = {}
    /\ cancel_while_streaming' = FALSE
    /\ prev_result' = None
    /\ UNCHANGED <<arg_vars, input_vars, faults, cancels, disk_vars, call, plan_vars,
                   verify_vars, other_vars>>

Next ==
    \/ \E size \in DownloadSizes : Start(size)
    \/ Cancel
    \/ \E w \in workers : WorkerStartCancelled(w)
    \/ \E w \in workers : \E success \in BOOLEAN : WorkerRequest(w, success)
    \/ \E w \in workers : \E stream_ok \in BOOLEAN : WorkerChunk(w, stream_ok)
    \/ \E w \in workers : WorkerWrite(w)
    \/ \E w \in workers : WorkerEnd(w)
    \/ Join
    \/ Finish
    \/ Crash

(***************************************************************************)
(* download_with_resume: the semaphore of the segment tasks                *)
(***************************************************************************)
\* Segments of the longest plan a sidecar on disk holds.  A plan of
\* create_new_metadata has 1, 4 or 8; serde reads a list of any length.
MaxSidecarSegments == 9

\* The plans a call may hold after "load or create metadata", as the number
\* of segments and the completed ones among them: a fresh plan, or a loaded
\* one with nothing, the first segment or all but the last two completed.
SemaphorePlans ==
    {[segment_count |-> n, completed |-> {}] : n \in {1, 4, 8}}
    \cup UNION {{[segment_count |-> n, completed |-> c] :
                    c \in {{}, {i \in 0 .. (n - 1) : i = 0},
                           {i \in 0 .. (n - 1) : i < n - 2}}} :
                n \in 0 .. MaxSidecarSegments}

\* segment_count.min(8)
SemaphorePermits_uncapped(segment_count) == segment_count

SemaphorePermits(segment_count) ==
    IF segment_count < 8 THEN segment_count ELSE 8

PermitInit ==
    /\ \E plan \in SemaphorePlans :
          /\ sem_segment_count = plan.segment_count
          /\ sem_completed = plan.completed
    /\ sem_pc = "entered"
    /\ semaphore = 0
    /\ sem_tasks = <<>>
    /\ PlanIdle
    /\ VerifyIdle
    /\ EngineIdle
    /\ WriteIdle
    /\ BatchIdle
    /\ LaterIdle

\* Semaphore::new(segment_count.min(8)) and the spawn loop: a task for every
\* segment that is not completed, each about to acquire a permit.
SemSpawn ==
    /\ sem_pc = "entered"
    /\ semaphore' = SemaphorePermits(sem_segment_count)
    /\ sem_tasks' = [i \in (0 .. (sem_segment_count - 1)) \ sem_completed |->
                        "acquiring"]
    /\ sem_pc' = "joining"
    /\ UNCHANGED <<sem_segment_count, sem_completed, plan_vars, verify_vars,
                   engine_vars, write_vars,
                   batch_vars, later_vars>>

\* semaphore.acquire().await returns a permit to the task.
SemAcquire(i) ==
    /\ sem_tasks[i] = "acquiring"
    /\ semaphore > 0
    /\ semaphore' = semaphore - 1
    /\ sem_tasks' = [sem_tasks EXCEPT ![i] = "requesting"]
    /\ UNCHANGED <<sem_segment_count, sem_completed, sem_pc, plan_vars,
                   verify_vars, engine_vars, write_vars,
                   batch_vars, later_vars>>

\* The task is past the cancel check and its request: the response starts,
\* or the task returns an error (cancelled, request failed, error status) and
\* its permit is dropped.
SemRequest(i, success) ==
    /\ sem_tasks[i] = "requesting"
    /\ sem_tasks' = [sem_tasks EXCEPT ![i] = IF success THEN "streaming"
                                             ELSE "returned"]
    /\ semaphore' = IF success THEN semaphore ELSE semaphore + 1
    /\ UNCHANGED <<sem_segment_count, sem_completed, sem_pc, plan_vars,
                   verify_vars, engine_vars, write_vars,
                   batch_vars, later_vars>>

\* The streaming loop ends, with Ok or an error: the task returns and its
\* permit is dropped.
SemReturn(i) ==
    /\ sem_tasks[i] = "streaming"
    /\ sem_tasks' = [sem_tasks EXCEPT ![i] = "returned"]
    /\ semaphore' = semaphore + 1
    /\ UNCHANGED <<sem_segment_count, sem_completed, sem_pc, plan_vars,
                   verify_vars, engine_vars, write_vars,
                   batch_vars, later_vars>>

PermitNext ==
    \/ SemSpawn
    \/ \E i \in DOMAIN sem_tasks : SemAcquire(i)
    \/ \E i \in DOMAIN sem_tasks : \E success \in BOOLEAN : SemRequest(i, success)
    \/ \E i \in DOMAIN sem_tasks : SemReturn(i)

(***************************************************************************)
(* download_with_resume: the shared part file handle                       *)
(***************************************************************************)
\* Segment tasks streaming at once, and chunks of each one's response.
MaxWriters == 3
WriteChunks == 2

\* Lengths a chunk may have (bytes_stream yields chunks of any length).
ChunkLens == {1, 3}

\* file.lock().await returns when no task holds the guard.
GuardFree_ignored == TRUE

GuardFree == file_guard = None

\* Tasks with disjoint adjacent segments of WriteChunks chunks each, every
\* one with its response started and current_pos at its segment's start.
WriteInit ==
    /\ file_guard = None
    /\ file_position = 0
    /\ landed = {}
    /\ \E n \in 2 .. MaxWriters : \E chunk_len \in ChunkLens :
          writers = [w \in 0 .. (n - 1) |->
                        [st          |-> "streaming",
                         current_pos |-> w * WriteChunks * chunk_len,
                         chunk_len   |-> chunk_len,
                         received    |-> 0]]
    /\ PlanIdle
    /\ VerifyIdle
    /\ EngineIdle
    /\ PermitIdle
    /\ BatchIdle
    /\ LaterIdle

\* stream.next().await yields a chunk: the task goes on to lock the file.
WriterChunk(w) ==
    /\ writers[w].st = "streaming"
    /\ writers[w].received < WriteChunks
    /\ writers' = [writers EXCEPT ![w].st = "locking"]
    /\ UNCHANGED <<file_guard, file_position, landed, plan_vars, verify_vars,
                   engine_vars, permit_vars, batch_vars, later_vars>>

\* file.lock().await
WriterLock(w) ==
    /\ writers[w].st = "locking"
    /\ GuardFree
    /\ file_guard' = Some(w)
    /\ writers' = [writers EXCEPT ![w].st = "seeking"]
    /\ UNCHANGED <<file_position, landed, plan_vars, verify_vars, engine_vars,
                   permit_vars, batch_vars, later_vars>>

\* file_guard.seek(SeekFrom::Start(current_pos)).await
WriterSeek(w) ==
    /\ writers[w].st = "seeking"
    /\ file_position' = writers[w].current_pos
    /\ writers' = [writers EXCEPT ![w].st = "writing"]
    /\ UNCHANGED <<file_guard, landed, plan_vars, verify_vars, engine_vars,
                   permit_vars, batch_vars, later_vars>>

\* file_guard.write_all(&chunk).await writes at the handle's position and
\* advances it; the guard is dropped at the end of the block and the task
\* advances its current_pos.
WriterWriteAll(w) ==
    /\ writers[w].st = "writing"
    /\ landed' = landed \cup {[task   |-> w,
                               chunk  |-> writers[w].received,
                               sought |-> writers[w].current_pos,
                               pos    |-> file_position,
                               len    |-> writers[w].chunk_len]}
    /\ file_position' = file_position + writers[w].chunk_len
    /\ file_guard' = None
    /\ writers' = [writers EXCEPT ![w].st = "streaming",
                                  ![w].current_pos = @ + writers[w].chunk_len,
                                  ![w].received = @ + 1]
    /\ UNCHANGED <<plan_vars, verify_vars, engine_vars, permit_vars, batch_vars, later_vars>>

WriteNext ==
    \/ \E w \in DOMAIN writers : WriterChunk(w)
    \/ \E w \in DOMAIN writers : WriterLock(w)
    \/ \E w \in DOMAIN writers : WriterSeek(w)
    \/ \E w \in DOMAIN writers : WriterWriteAll(w)

(***************************************************************************)
(* download_files                                                          *)
(***************************************************************************)
\* Tasks of the longest batch.
MaxTasks == 3

\* Values of the caller's max_concurrent: below, inside and above [1, 128].
MaxConcurrentValues == {0, 1, 2, 129}

\* What a task is with respect to its destination: absent; present with the
\* content whose hash the task declares; present with other content; present
\* with no hash declared.
TaskProfiles == {"missing", "valid", "stale", "unhashed"}

\* The body the server serves for a url, one byte per chunk: two bytes,
\* except one byte for the second url.
ServedBody(url) == IF url = 2 THEN <<1>> ELSE <<1, 1>>

StaleContent == <<0>>

DownloadTask(t, profile) ==
    [url    |-> t,
     path   |-> t,
     sha1   |-> IF profile = "unhashed" THEN None
                ELSE Some(compute_sha1(ServedBody(t))),
     sha256 |-> None]

FileOf(t, profile) ==
    IF profile = "missing" THEN None
    ELSE IF profile = "valid" THEN Some(ServedBody(t))
    ELSE Some(StaleContent)

\* max_concurrent.clamp(1, 128)
clamp_upper_only(v, min, max) == IF v > max THEN max ELSE v

clamp(v, min, max) == IF v < min THEN min ELSE IF v > max THEN max ELSE v

\* GlobalProgress::add_bytes and inc_completed: the new value of the counter.
add_bytes_store(delta) == delta

add_bytes(delta) == total_downloaded_bytes + delta

inc_completed_lost == completed_files

inc_completed == completed_files + 1

\* emit_progress(&window, &file_name, status, ..): the event's status; its
\* byte and file counts are not kept.
emit_progress(t, status) == [emitted EXCEPT ![t] = Append(@, status)]

TaskErrors ==
    {"Request error", "Create file error", "Write error", "Download error"}
Settled == {"Skipped", "Finished"} \cup TaskErrors

\* Futures the unordered buffer holds that have not completed.
InBuffer_keeps_finished == 1 .. pulled

InBuffer == {t \in 1 .. pulled : futures[t].st \notin Settled}

\* tokio::fs::metadata(&task.path).await.map(|m| m.len()).unwrap_or(0)
SkippedSize_zero(t) == 0

SkippedSize(t) == Len(Unwrap(files[t]))

\* collect() has every result of the stream.
AllCollected_first == \E t \in 1 .. Len(tasks) : futures[t].st \in Settled

AllCollected ==
    /\ pulled = Len(tasks)
    /\ \A t \in 1 .. Len(tasks) : futures[t].st \in Settled

\* The value download_files returns once the results are collected.
BatchResult_first_error ==
    IF \E t \in 1 .. Len(tasks) : futures[t].st \in TaskErrors
    THEN LET t == CHOOSE x \in 1 .. Len(tasks) : futures[x].st \in TaskErrors
         IN  Some(futures[t].st)
    ELSE Some("Ok")

BatchResult == Some("Ok")

BatchInit ==
    /\ \E n \in 0 .. MaxTasks : \E profile \in [1 .. n -> TaskProfiles] :
          /\ tasks = [t \in 1 .. n |-> DownloadTask(t, profile[t])]
          /\ initial_files = [t \in 1 .. n |-> FileOf(t, profile[t])]
          /\ files = [t \in 1 .. n |-> FileOf(t, profile[t])]
          /\ futures = [t \in 1 .. n |->
                           [st |-> "queued", downloaded |-> 0,
                            read_failed |-> FALSE]]
          /\ emitted = [t \in 1 .. n |-> <<>>]
          /\ sent = [t \in 1 .. n |-> 0]
    /\ max_concurrent \in MaxConcurrentValues
    /\ batch_pc = "called"
    /\ clamped = 1
    /\ batch_semaphore = 0
    /\ completed_files = 0
    /\ total_downloaded_bytes = 0
    /\ pulled = 0
    /\ batch_result = None
    /\ window_events = <<>>
    /\ PlanIdle
    /\ VerifyIdle
    /\ EngineIdle
    /\ PermitIdle
    /\ WriteIdle
    /\ LaterIdle

\* download_files up to the stream of task futures: clamp, semaphore,
\* GlobalProgress::new, the download-start event.
BatchStart ==
    /\ batch_pc = "called"
    /\ clamped' = clamp(max_concurrent, 1, 128)
    /\ batch_semaphore' = clamped'
    /\ completed_files' = 0
    /\ total_downloaded_bytes' = 0
    /\ window_events' = Append(window_events, <<"download-start", Len(tasks)>>)
    /\ batch_pc' = "running"
    /\ UNCHANGED <<tasks, max_concurrent, initial_files, files, pulled,
                   futures, batch_result, emitted, sent, plan_vars,
                   verify_vars, engine_vars, permit_vars, write_vars, later_vars>>

\* buffer_unordered(max_concurrent) takes the next future from the stream
\* while it holds fewer than max_concurrent unfinished ones.
BatchPull ==
    /\ batch_pc = "running"
    /\ pulled < Len(tasks)
    /\ Cardinality(InBuffer) < clamped
    /\ pulled' = pulled + 1
    /\ futures' = [futures EXCEPT ![pulled + 1].st = "acquiring"]
    /\ UNCHANGED <<tasks, max_concurrent, initial_files, files, batch_pc,
                   clamped, batch_semaphore, completed_files,
                   total_downloaded_bytes, batch_result, emitted,
                   window_events, sent, plan_vars, verify_vars, engine_vars,
                   permit_vars, write_vars, later_vars>>

\* The future gets its permit and looks at its destination: if it exists,
\* Verifying is emitted and, with a hash declared, the file is read next.
BatchAcquire(t) ==
    /\ futures[t].st = "acquiring"
    /\ batch_semaphore > 0
    /\ batch_semaphore' = batch_semaphore - 1
    /\ emitted' = IF IsSome(files[t]) THEN emit_progress(t, "Verifying")
                  ELSE emitted
    /\ futures' = [futures EXCEPT ![t].st =
                      IF /\ IsSome(files[t])
                         /\ IsSome(tasks[t].sha256) \/ IsSome(tasks[t].sha1)
                      THEN "verifying" ELSE "requesting"]
    /\ UNCHANGED <<tasks, max_concurrent, initial_files, files, batch_pc,
                   clamped, completed_files, total_downloaded_bytes, pulled,
                   batch_result, window_events, sent, plan_vars, verify_vars,
                   engine_vars, permit_vars, write_vars, later_vars>>

\* The read of the existing file returns.  Read and verified: its size is
\* added to the byte counter, Skipped is emitted with the incremented file
\* counter and the future returns Ok.  Otherwise the future goes on to
\* download.
BatchVerify(t, read_ok) ==
    /\ futures[t].st = "verifying"
    /\ IF read_ok /\ verify_checksum(Unwrap(files[t]), tasks[t].sha256,
                                     tasks[t].sha1)
       THEN /\ total_downloaded_bytes' =
                   IF SkippedSize(t) > 0 THEN add_bytes(SkippedSize(t))
                   ELSE total_downloaded_bytes
            /\ completed_files' = inc_completed
            /\ emitted' = emit_progress(t, "Skipped")
            /\ futures' = [futures EXCEPT ![t].st = "Skipped"]
            /\ batch_semaphore' = batch_semaphore + 1
       ELSE /\ futures' = [futures EXCEPT ![t].st = "requesting",
                                          ![t].read_failed = ~read_ok]
            /\ UNCHANGED <<total_downloaded_bytes, completed_files, emitted,
                           batch_semaphore>>
    /\ UNCHANGED <<tasks, max_concurrent, initial_files, files, batch_pc,
                   clamped, pulled, batch_result, window_events, sent,
                   plan_vars, verify_vars, engine_vars, permit_vars,
                   write_vars, later_vars>>

\* client.get(&task.url).send().await and File::create: the request fails,
\* or the response starts and the destination is created (truncated) or
\* cannot be created.
BatchRequest(t, outcome) ==
    /\ futures[t].st = "requesting"
    /\ sent' = [sent EXCEPT ![t] = @ + 1]
    /\ files' = IF outcome = "response" THEN [files EXCEPT ![t] = Some(<<>>)]
                ELSE files
    /\ futures' = [futures EXCEPT ![t].st = IF outcome = "response"
                                            THEN "writing" ELSE outcome]
    /\ batch_semaphore' = IF outcome = "response" THEN batch_semaphore
                          ELSE batch_semaphore + 1
    /\ UNCHANGED <<tasks, max_concurrent, initial_files, batch_pc, clamped,
                   completed_files, total_downloaded_bytes, pulled,
                   batch_result, emitted, window_events, plan_vars,
                   verify_vars, engine_vars, permit_vars, write_vars, later_vars>>

\* resp.chunk().await: a chunk that is written, counted and reported; a chunk
\* whose write fails; or an error of the stream.
BatchChunk(t, outcome) ==
    /\ futures[t].st = "writing"
    /\ outcome = "Download error"
       \/ futures[t].downloaded < Len(ServedBody(tasks[t].url))
    /\ IF outcome = "chunk"
       THEN LET chunk == <<ServedBody(tasks[t].url)[futures[t].downloaded + 1]>>
            IN  /\ files' = [files EXCEPT ![t] = Some(Unwrap(@) \o chunk)]
                /\ futures' = [futures EXCEPT ![t].downloaded = @ + Len(chunk)]
                /\ total_downloaded_bytes' = add_bytes(Len(chunk))
                /\ emitted' = emit_progress(t, "Downloading")
                /\ UNCHANGED batch_semaphore
       ELSE /\ futures' = [futures EXCEPT ![t].st = outcome]
            /\ batch_semaphore' = batch_semaphore + 1
            /\ UNCHANGED <<files, total_downloaded_bytes, emitted>>
    /\ UNCHANGED <<tasks, max_concurrent, initial_files, batch_pc, clamped,
                   completed_files, pulled, batch_result, window_events, sent,
                   plan_vars, verify_vars, engine_vars, permit_vars,
                   write_vars, later_vars>>

\* resp.chunk().await gives Ok(None): Finished is emitted with the
\* incremented file counter and the future returns Ok.
BatchBodyEnd(t) ==
    /\ futures[t].st = "writing"
    /\ futures[t].downloaded = Len(ServedBody(tasks[t].url))
    /\ completed_files' = inc_completed
    /\ emitted' = emit_progress(t, "Finished")
    /\ futures' = [futures EXCEPT ![t].st = "Finished"]
    /\ batch_semaphore' = batch_semaphore + 1
    /\ UNCHANGED <<tasks, max_concurrent, initial_files, files, batch_pc,
                   clamped, total_downloaded_bytes, pulled, batch_result,
                   window_events, sent, plan_vars, verify_vars, engine_vars,
                   permit_vars, write_vars, later_vars>>

\* collect().await is done: download-complete is emitted and Ok returned.
BatchReturn ==
    /\ batch_pc = "running"
    /\ AllCollected
    /\ window_events' = Append(window_events, <<"download-complete", 0>>)
    /\ batch_result' = BatchResult
    /\ batch_pc' = "returned"
    /\ UNCHANGED <<tasks, max_concurrent, initial_files, files, clamped,
                   batch_semaphore, completed_files, total_downloaded_bytes,
                   pulled, futures, emitted, sent, plan_vars, verify_vars,
                   engine_vars, permit_vars, write_vars, later_vars>>

BatchNext ==
    \/ BatchStart
    \/ BatchPull
    \/ \E t \in DOMAIN futures : BatchAcquire(t)
    \/ \E t \in DOMAIN futures : \E read_ok \in BOOLEAN : BatchVerify(t, read_ok)
    \/ \E t \in DOMAIN futures :
          \E outcome \in {"response", "Request error", "Create file error"} :
             BatchRequest(t, outcome)
    \/ \E t \in DOMAIN futures :
          \E outcome \in {"chunk", "Write error", "Download error"} :
             BatchChunk(t, outcome)
    \/ \E t \in DOMAIN futures : BatchBodyEnd(t)
    \/ BatchReturn

(***************************************************************************)
(* DownloadQueue                                                           *)
(***************************************************************************)
\* Records of the longest queue a queue file holds.
MaxLoadedLen == 2

MajorVersions == {17, 21}
ImageTypes == {"jre", "jdk"}

\* PendingJavaDownload: the two fields of the key, and download_url for the
\* fields that are carried along (file_name, file_size, checksum,
\* install_path, created_at).
PendingJavaDownloads ==
    [major_version : MajorVersions, image_type : ImageTypes,
     download_url : {"url-a", "url-b"}]

\* DownloadQueue::add: drop the records of the download's version and type,
\* push the download.
add_push_only(queue, download) == Append(queue, download)

add(queue, download) ==
    Append(SelectSeq(queue,
                     LAMBDA d : ~(/\ d.major_version = download.major_version
                                  /\ d.image_type = download.image_type)),
           download)

\* DownloadQueue::remove: keep the records of another version or type.
remove_by_version(queue, major_version, image_type) ==
    SelectSeq(queue, LAMBDA d : ~(d.major_version = major_version))

remove(queue, major_version, image_type) ==
    SelectSeq(queue, LAMBDA d : ~(/\ d.major_version = major_version
                                  /\ d.image_type = image_type))

\* DownloadQueue::default()
QueueInit ==
    /\ pending_downloads = <<>>
    /\ queue_op = None
    /\ PlanIdle
    /\ VerifyIdle
    /\ EngineIdle
    /\ PermitIdle
    /\ WriteIdle
    /\ BatchIdle
    /\ InstallIdle
    /\ PairIdle
    /\ ThrottleIdle
    /\ FurtherIdle

\* A queue as DownloadQueue::load deserializes it from any queue file.
QueueAnyInit ==
    /\ pending_downloads \in
           UNION {[1 .. n -> PendingJavaDownloads] : n \in 0 .. MaxLoadedLen}
    /\ queue_op = None
    /\ PlanIdle
    /\ VerifyIdle
    /\ EngineIdle
    /\ PermitIdle
    /\ WriteIdle
    /\ BatchIdle
    /\ InstallIdle
    /\ PairIdle
    /\ ThrottleIdle
    /\ FurtherIdle

QueueAdd(download) ==
    /\ pending_downloads' = add(pending_downloads, download)
    /\ queue_op' = Some([op |-> "add", arg |-> download,
                         before |-> pending_downloads])
    /\ UNCHANGED beside_queue

QueueRemove(major_version, image_type) ==
    /\ pending_downloads' = remove(pending_downloads, major_version, image_type)
    /\ queue_op' = Some([op |-> "remove",
                         arg |-> [major_version |-> major_version,
                                  image_type |-> image_type,
                                  download_url |-> "-"],
                         before |-> pending_downloads])
    /\ UNCHANGED beside_queue

QueueNext ==
    \/ \E download \in PendingJavaDownloads : QueueAdd(download)
    \/ \E major_version \in MajorVersions : \E image_type \in ImageTypes :
          QueueRemove(major_version, image_type)

(***************************************************************************)
(* download_and_install_java and resume_pending_downloads                  *)
(***************************************************************************)
\* Calls of the two commands in one behaviour.
MaxInstallCalls == 3

JavaKey(d) == <<d.major_version, d.image_type>>

QueueKeys(queue) == {JavaKey(queue[i]) : i \in DOMAIN queue}

\* The frame of a download_and_install_java call at its first await.
InstallFrame(major_version, image_type, by_resume, invocation) ==
    [major_version |-> major_version,
     image_type    |-> image_type,
     pc            |-> "fetching",
     queue         |-> <<>>,
     by_resume     |-> by_resume,
     call          |-> invocation]

\* The segment tasks of the transfer of the call in progress, named by the
\* key of the call and the command invocation the call belongs to.
InstallTransfer ==
    [key  |-> JavaKey(Unwrap(install)),
     call |-> Unwrap(install).call]

\* What the return of the call in progress leaves in the caller: the match
\* in the loop of resume_pending_downloads pushes an installation or logs
\* the error, and the loop goes on to the next record.
ResumeAfterReturn(ok) ==
    IF Unwrap(install).by_resume
    THEN Some([Unwrap(resume) EXCEPT
                 !.attempts = Append(@, [key |-> JavaKey(Unwrap(install)),
                                         ok  |-> ok]),
                 !.installed = IF ok THEN Append(@, JavaKey(Unwrap(install)))
                               ELSE @,
                 !.index = @ + 1])
    ELSE resume

InstallReturn(ok, stage) ==
    /\ install' = None
    /\ install_result' = Some([key   |-> JavaKey(Unwrap(install)),
                               ok    |-> ok,
                               stage |-> stage])
    /\ resume' = ResumeAfterReturn(ok)

InstallInit ==
    /\ queue_file = <<>>
    /\ install = None
    /\ resume = None
    /\ transfer_running = {}
    /\ install_result = None
    /\ install_calls = 0
    /\ cancel_requested = FALSE
    /\ PlanIdle
    /\ VerifyIdle
    /\ EngineIdle
    /\ PermitIdle
    /\ WriteIdle
    /\ BatchIdle
    /\ QueueIdle
    /\ PairIdle
    /\ ThrottleIdle
    /\ FurtherIdle

\* The download_and_install_java command is invoked.
InstallCall(major_version, image_type) ==
    /\ install = None
    /\ IF IsSome(resume) THEN Unwrap(resume).done ELSE TRUE
    /\ install_calls < MaxInstallCalls
    /\ install_calls' = install_calls + 1
    /\ install' = Some(InstallFrame(major_version, image_type, FALSE,
                                     install_calls + 1))
    /\ UNCHANGED <<queue_file, resume, transfer_running, install_result,
                   cancel_requested, beside_install>>

\* fetch_release returns: an error is returned to the caller; or the queue
\* is loaded, the pending record of the release added and the queue saved.
InstallFetch(success, download_url) ==
    /\ IsSome(install)
    /\ Unwrap(install).pc = "fetching"
    /\ IF success
       THEN LET queue == add(queue_file,
                             [major_version |-> Unwrap(install).major_version,
                              image_type    |-> Unwrap(install).image_type,
                              download_url  |-> download_url])
            IN  /\ queue_file' = queue
                /\ install' = Some([Unwrap(install) EXCEPT !.pc = "saved",
                                                           !.queue = queue])
                /\ UNCHANGED <<resume, install_result>>
       ELSE /\ InstallReturn(FALSE, "fetching")
            /\ UNCHANGED queue_file
    /\ UNCHANGED <<transfer_running, install_calls, cancel_requested, beside_install>>

\* need_download is decided: download_with_resume is called and spawns its
\* segment tasks, or the archive on disk is taken.
InstallArchive(need_download) ==
    /\ IsSome(install)
    /\ Unwrap(install).pc = "saved"
    /\ install' = Some([Unwrap(install) EXCEPT !.pc =
                           IF need_download THEN "transferring"
                           ELSE "extracting"])
    /\ transfer_running' =
           IF need_download
           THEN transfer_running \cup {InstallTransfer}
           ELSE transfer_running
    /\ cancel_requested' = (~need_download /\ cancel_requested)
    /\ UNCHANGED <<queue_file, resume, install_result, install_calls,
                   beside_install>>

\* download_with_resume returns.  With Ok or after a failed segment every
\* handle has been awaited; with the cancelled error the handles after the
\* cancelled one have not, and their tasks may still run.
InstallTransferReturn(outcome, tasks_left) ==
    /\ IsSome(install)
    /\ Unwrap(install).pc = "transferring"
    /\ outcome = CancelledError => cancel_requested
    /\ tasks_left => outcome = CancelledError
    /\ transfer_running' =
           IF tasks_left THEN transfer_running
           ELSE transfer_running \ {InstallTransfer}
    /\ IF outcome = "Ok"
       THEN /\ install' = Some([Unwrap(install) EXCEPT !.pc = "extracting"])
            /\ UNCHANGED <<resume, install_result>>
       ELSE InstallReturn(FALSE, "transferring")
    /\ UNCHANGED <<queue_file, install_calls, cancel_requested, beside_install>>

\* A segment task left running by a call that has returned comes to its end.
TransferTaskEnd(transfer) ==
    /\ transfer \in transfer_running
    /\ ~(/\ IsSome(install)
         /\ Unwrap(install).pc = "transferring"
         /\ InstallTransfer = transfer)
    /\ transfer_running' = transfer_running \ {transfer}
    /\ UNCHANGED <<queue_file, install, resume, install_result, install_calls,
                   cancel_requested, beside_install>>

\* The archive is unpacked into the version directory, or that fails.
InstallExtract_forgets(success) ==
    /\ IsSome(install)
    /\ Unwrap(install).pc = "extracting"
    /\ IF success
       THEN /\ install' = Some([Unwrap(install) EXCEPT !.pc = "validating"])
            /\ UNCHANGED <<resume, install_result, queue_file>>
       ELSE /\ InstallReturn(FALSE, "extracting")
            /\ queue_file' = remove(Unwrap(install).queue,
                                    Unwrap(install).major_version,
                                    Unwrap(install).image_type)
    /\ UNCHANGED <<transfer_running, install_calls, cancel_requested, beside_install>>

InstallExtract(success) ==
    /\ IsSome(install)
    /\ Unwrap(install).pc = "extracting"
    /\ IF success
       THEN /\ install' = Some([Unwrap(install) EXCEPT !.pc = "validating"])
            /\ UNCHANGED <<resume, install_result>>
       ELSE InstallReturn(FALSE, "extracting")
    /\ UNCHANGED <<queue_file, transfer_running, install_calls,
                   cancel_requested, beside_install>>

\* The java executable is looked up and checked: an error is returned; or
\* the record is removed from the queue of the call, that queue is saved and
\* the installation returned.
InstallValidate(success) ==
    /\ IsSome(install)
    /\ Unwrap(install).pc = "validating"
    /\ InstallReturn(success, "validating")
    /\ queue_file' = IF success
                     THEN remove(Unwrap(install).queue,
                                 Unwrap(install).major_version,
                                 Unwrap(install).image_type)
                     ELSE queue_file
    /\ UNCHANGED <<transfer_running, install_calls, cancel_requested, beside_install>>

\* The resume_pending_downloads command is invoked: the queue is loaded.
ResumeCall ==
    /\ install = None
    /\ IF IsSome(resume) THEN Unwrap(resume).done ELSE TRUE
    /\ install_calls < MaxInstallCalls
    /\ install_calls' = install_calls + 1
    /\ resume' = Some([call      |-> install_calls + 1,
                       loaded    |-> queue_file,
                       index     |-> 1,
                       installed |-> <<>>,
                       attempts  |-> <<>>,
                       done      |-> FALSE,
                       persisted |-> <<>>])
    /\ UNCHANGED <<queue_file, install, transfer_running, install_result,
                   cancel_requested, beside_install>>

\* The loop takes the next record and calls download_and_install_java.
ResumeNext ==
    /\ IsSome(resume)
    /\ ~Unwrap(resume).done
    /\ install = None
    /\ Unwrap(resume).index <= Len(Unwrap(resume).loaded)
    /\ LET pending == Unwrap(resume).loaded[Unwrap(resume).index]
       IN  install' = Some(InstallFrame(pending.major_version,
                                        IF pending.image_type = "jdk"
                                        THEN "jdk" ELSE "jre",
                                        TRUE, Unwrap(resume).call))
    /\ UNCHANGED <<queue_file, resume, transfer_running, install_result,
                   install_calls, cancel_requested, beside_install>>

\* The loop is over: Ok(installed) is returned.
ResumeReturn ==
    /\ IsSome(resume)
    /\ ~Unwrap(resume).done
    /\ install = None
    /\ Unwrap(resume).index > Len(Unwrap(resume).loaded)
    /\ resume' = Some([Unwrap(resume) EXCEPT !.done = TRUE,
                                              !.persisted = queue_file])
    /\ UNCHANGED <<queue_file, install, transfer_running, install_result,
                   install_calls, cancel_requested, beside_install>>

\* cancel_current_download: the process-wide flag is set.
InstallCancel ==
    /\ ~cancel_requested
    /\ cancel_requested' = TRUE
    /\ UNCHANGED <<queue_file, install, resume, transfer_running,
                   install_result, install_calls, beside_install>>

InstallNext ==
    \/ \E major_version \in MajorVersions : \E image_type \in ImageTypes :
          InstallCall(major_version, image_type)
    \/ \E success \in BOOLEAN : \E download_url \in {"url-a", "url-b"} :
          InstallFetch(success, download_url)
    \/ \E need_download \in BOOLEAN : InstallArchive(need_download)
    \/ \E outcome \in {"Ok", "Some segments failed", CancelledError} :
          \E tasks_left \in BOOLEAN : InstallTransferReturn(outcome, tasks_left)
    \/ \E key \in MajorVersions \X ImageTypes : \E invocation \in 1 .. MaxInstallCalls :
          TransferTaskEnd([key |-> key, call |-> invocation])
    \/ \E success \in BOOLEAN : InstallExtract(success)
    \/ \E success \in BOOLEAN : InstallValidate(success)
    \/ ResumeCall
    \/ ResumeNext
    \/ ResumeReturn
    \/ InstallCancel

(***************************************************************************)
(* Overlapping download_files invocations and their GlobalProgress         *)
(***************************************************************************)
MaxInvocations == 2
MaxPairTasks == 2
MaxPairChunks == 1
PairChunkLens == {1, 3}

GlobalProgress_new(total_files) ==
    [completed_files        |-> 0,
     total_downloaded_bytes |-> 0,
     total_files            |-> total_files]

\* The object the `progress` of an invocation points to: Arc::new allocates
\* one per invocation, and every task of the invocation holds a clone of
\* that Arc.
ProgressOf_shared(invocation) == 1

ProgressOf(invocation) == invocation

Started(invocation) == invocation \in DOMAIN invocations

snapshot(invocation) == progress_objects[ProgressOf(invocation)]

ProgressEvent(invocation, t, status, snap) ==
    [file                   |-> t,
     status                 |-> status,
     completed_files        |-> snap.completed_files,
     total_files            |-> snap.total_files,
     total_downloaded_bytes |-> snap.total_downloaded_bytes]

\* A task of an invocation that is still in its async block.
PairTaskOpen(invocation, t) ==
    /\ Started(invocation)
    /\ t \in DOMAIN invocations[invocation].tasks
    /\ invocations[invocation].tasks[t].st \in {"queued", "downloading"}

PairInit ==
    /\ invocations = <<>>
    /\ progress_objects = <<>>
    /\ last_event = <<>>
    /\ PlanIdle
    /\ VerifyIdle
    /\ EngineIdle
    /\ PermitIdle
    /\ WriteIdle
    /\ BatchIdle
    /\ QueueIdle
    /\ InstallIdle
    /\ ThrottleIdle
    /\ FurtherIdle

\* download_files is entered with task_count tasks: the aggregator is
\* created and "download-start" emitted.
PairStart(task_count) ==
    LET invocation == Len(invocations) + 1
    IN  /\ invocation <= MaxInvocations
        /\ invocations' = Append(invocations,
               [tasks    |-> [t \in 1 .. task_count |->
                                 [st |-> "queued", chunks |-> 0, bytes |-> 0]],
                returned |-> FALSE])
        /\ progress_objects' =
               [o \in DOMAIN progress_objects \cup {ProgressOf(invocation)} |->
                   IF o = ProgressOf(invocation)
                   THEN GlobalProgress_new(task_count)
                   ELSE progress_objects[o]]
        /\ last_event' = Append(last_event, None)
        /\ UNCHANGED beside_pair

\* A task finds its file valid: add_bytes(skipped_size) when positive,
\* inc_completed, "Skipped".
PairSkip(invocation, t, skipped_size) ==
    /\ PairTaskOpen(invocation, t)
    /\ invocations[invocation].tasks[t].st = "queued"
    /\ LET added == [snapshot(invocation) EXCEPT
                        !.total_downloaded_bytes = @ + skipped_size,
                        !.completed_files = @ + 1]
       IN  /\ progress_objects' =
                  [progress_objects EXCEPT ![ProgressOf(invocation)] = added]
           /\ last_event' = [last_event EXCEPT ![invocation] =
                  Some(ProgressEvent(invocation, t, "Skipped", added))]
    /\ invocations' = [invocations EXCEPT ![invocation].tasks[t] =
           [st |-> "done", chunks |-> 0, bytes |-> skipped_size]]
    /\ UNCHANGED beside_pair

\* A chunk of a task's response is written: add_bytes, "Downloading".
PairChunk(invocation, t, len) ==
    /\ PairTaskOpen(invocation, t)
    /\ invocations[invocation].tasks[t].chunks < MaxPairChunks
    /\ LET added == [snapshot(invocation) EXCEPT
                        !.total_downloaded_bytes = @ + len]
       IN  /\ progress_objects' =
                  [progress_objects EXCEPT ![ProgressOf(invocation)] = added]
           /\ last_event' = [last_event EXCEPT ![invocation] =
                  Some(ProgressEvent(invocation, t, "Downloading", added))]
    /\ invocations' = [invocations EXCEPT ![invocation].tasks[t] =
           [st |-> "downloading", chunks |-> @.chunks + 1,
            bytes |-> @.bytes + len]]
    /\ UNCHANGED beside_pair

\* The response of a task ends: inc_completed, "Finished".
PairFinish(invocation, t) ==
    /\ PairTaskOpen(invocation, t)
    /\ LET added == [snapshot(invocation) EXCEPT !.completed_files = @ + 1]
       IN  /\ progress_objects' =
                  [progress_objects EXCEPT ![ProgressOf(invocation)] = added]
           /\ last_event' = [last_event EXCEPT ![invocation] =
                  Some(ProgressEvent(invocation, t, "Finished", added))]
    /\ invocations' = [invocations EXCEPT ![invocation].tasks[t].st = "done"]
    /\ UNCHANGED beside_pair

\* The request, the file creation, a write or the stream of a task fails:
\* the task returns its error and no counter moves.
PairFail(invocation, t) ==
    /\ PairTaskOpen(invocation, t)
    /\ invocations' = [invocations EXCEPT ![invocation].tasks[t].st = "failed"]
    /\ UNCHANGED <<progress_objects, last_event, beside_pair>>

\* Every task is collected: "download-complete", Ok(()).
PairReturn(invocation) ==
    /\ Started(invocation)
    /\ ~invocations[invocation].returned
    /\ \A t \in DOMAIN invocations[invocation].tasks :
          invocations[invocation].tasks[t].st \in {"done", "failed"}
    /\ invocations' = [invocations EXCEPT ![invocation].returned = TRUE]
    /\ UNCHANGED <<progress_objects, last_event, beside_pair>>

PairNext ==
    \/ \E task_count \in 0 .. MaxPairTasks : PairStart(task_count)
    \/ \E invocation \in 1 .. MaxInvocations : \E t \in 1 .. MaxPairTasks :
          \/ \E skipped_size \in {0} \cup PairChunkLens :
                PairSkip(invocation, t, skipped_size)
          \/ \E len \in PairChunkLens : PairChunk(invocation, t, len)
          \/ PairFinish(invocation, t)
          \/ PairFail(invocation, t)
    \/ \E invocation \in 1 .. MaxInvocations : PairReturn(invocation)

(***************************************************************************)
(* The throttle of the Downloading events of download_with_resume          *)
(***************************************************************************)
MaxThrottleTasks == 2
ChunksPerTask == 2
KiB == 1024
ThrottleChunkLens == {60 * KiB, 110 * KiB}

\* The lengths of the chunks the response of a segment task comes in.
ChunkPlans == UNION {[1 .. n -> ThrottleChunkLens] : n \in 1 .. ChunksPerTask}

RECURSIVE SumSeq(_)
SumSeq(q) == IF q = <<>> THEN 0 ELSE Head(q) + SumSeq(Tail(q))

RECURSIVE PlannedBytes(_, _)
PlannedBytes(plan, n) ==
    IF n = 0 THEN 0 ELSE SumSeq(plan[n]) + PlannedBytes(plan, n - 1)

ThrottleInit ==
    /\ \E plan \in [1 .. MaxThrottleTasks -> ChunkPlans] :
          /\ segment_tasks = [w \in 1 .. MaxThrottleTasks |->
                                 [pc               |-> "streaming",
                                  chunks           |-> plan[w],
                                  total_downloaded |-> 0,
                                  last_bytes       |-> 0]]
          /\ throttle_total = PlannedBytes(plan, MaxThrottleTasks)
    /\ throttle_overflow_checks \in BOOLEAN
    /\ progress_counter = 0
    /\ last_progress_bytes = 0
    /\ progress_events = <<>>
    /\ PlanIdle
    /\ VerifyIdle
    /\ EngineIdle
    /\ PermitIdle
    /\ WriteIdle
    /\ BatchIdle
    /\ QueueIdle
    /\ InstallIdle
    /\ PairIdle
    /\ FurtherIdle

\* A chunk was written: progress.fetch_add(chunk_len) + chunk_len.
ThrottleFetchAdd(w) ==
    /\ segment_tasks[w].pc = "streaming"
    /\ segment_tasks[w].chunks # <<>>
    /\ progress_counter' = progress_counter + Head(segment_tasks[w].chunks)
    /\ segment_tasks' = [segment_tasks EXCEPT
           ![w].pc = "added",
           ![w].chunks = Tail(@),
           ![w].total_downloaded = progress_counter']
    /\ UNCHANGED <<throttle_total, throttle_overflow_checks,
                   last_progress_bytes, progress_events, beside_throttle>>

\* last_progress_bytes.load()
ThrottleLoad(w) ==
    /\ segment_tasks[w].pc = "added"
    /\ segment_tasks' = [segment_tasks EXCEPT
           ![w].pc = "loaded",
           ![w].last_bytes = last_progress_bytes]
    /\ UNCHANGED <<throttle_total, throttle_overflow_checks, progress_counter,
                   last_progress_bytes, progress_events, beside_throttle>>

\* total_downloaded - last_bytes > 100 * 1024 || total_downloaded >=
\* total_size: the subtraction panics on underflow in a build with overflow
\* checks and wraps in a build without.
ShouldEmit(total_downloaded, last_bytes, size) ==
    \/ WrappingSub(total_downloaded, last_bytes) > 100 * KiB
    \/ total_downloaded >= size

\* The condition of the throttle is evaluated and, when it holds, the new
\* value stored.
ThrottleCompare(w) ==
    LET task == segment_tasks[w] IN
    /\ task.pc = "loaded"
    /\ IF throttle_overflow_checks /\ task.total_downloaded < task.last_bytes
       THEN /\ segment_tasks' = [segment_tasks EXCEPT ![w].pc = "panicked"]
            /\ UNCHANGED last_progress_bytes
       ELSE IF ShouldEmit(task.total_downloaded, task.last_bytes, throttle_total)
       THEN /\ segment_tasks' = [segment_tasks EXCEPT ![w].pc = "emitting"]
            /\ last_progress_bytes' = task.total_downloaded
       ELSE /\ segment_tasks' = [segment_tasks EXCEPT ![w].pc = "streaming"]
            /\ UNCHANGED last_progress_bytes
    /\ UNCHANGED <<throttle_total, throttle_overflow_checks, progress_counter,
                   progress_events, beside_throttle>>

\* app_handle.emit("java-download-progress", .. status: "Downloading")
ThrottleEmit(w) ==
    /\ segment_tasks[w].pc = "emitting"
    /\ progress_events' = Append(progress_events,
           [downloaded_bytes |-> segment_tasks[w].total_downloaded,
            total_bytes      |-> throttle_total,
            last_bytes       |-> segment_tasks[w].last_bytes])
    /\ segment_tasks' = [segment_tasks EXCEPT ![w].pc = "streaming"]
    /\ UNCHANGED <<throttle_total, throttle_overflow_checks, progress_counter,
                   last_progress_bytes, beside_throttle>>

ThrottleNext ==
    \E w \in 1 .. MaxThrottleTasks :
       \/ ThrottleFetchAdd(w)
       \/ ThrottleLoad(w)
       \/ ThrottleCompare(w)
       \/ ThrottleEmit(w)

(***************************************************************************)
(* The segment tasks of one download_with_resume call and the bodies the   *)
(* server answers their Range requests with                                *)
(***************************************************************************)
\* The most chunks the body of one response arrives in.
MaxRangeChunks == 2

\* reqwest::StatusCode::PARTIAL_CONTENT
PARTIAL_CONTENT == 206

\* The statuses a request is answered with: partial content, ok, not found.
Statuses == {PARTIAL_CONTENT, 200, 404}

\* response.status().is_success() || status == PARTIAL_CONTENT
Accepted_partial_only(status) == status = PARTIAL_CONTENT

Accepted(status) ==
    (200 <= status /\ status < 300) \/ status = PARTIAL_CONTENT

\* The body of a response: the requested range with 206, the whole file
\* with 200 (a server that ignores the Range header).
BodyLen(status, segment_start, segment_end) ==
    IF status = PARTIAL_CONTENT THEN segment_end - segment_start + 1
    ELSE range_total

RangeSegments ==
    create_new_metadata(Url, FileName, range_total, None, FALSE).segments

RangeInit ==
    /\ range_total \in DownloadSizes
    /\ range_workers =
          [idx \in DOMAIN RangeSegments |->
              [pc            |-> "spawned",
               segment_start |-> RangeSegments[idx].start
                                    + RangeSegments[idx].downloaded,
               segment_end   |-> RangeSegments[idx].end,
               status        |-> 0,
               current_pos   |-> 0,
               body_left     |-> 0,
               chunks        |-> 0]]
    /\ range_written = {}
    /\ PlanIdle
    /\ VerifyIdle
    /\ EngineIdle
    /\ PermitIdle
    /\ WriteIdle
    /\ BatchIdle
    /\ QueueIdle
    /\ InstallIdle
    /\ PairIdle
    /\ ThrottleIdle
    /\ FlagIdle
    /\ OverlapIdle

\* The request of a segment task is answered (or fails to be sent).
RangeRequest(idx, answered, status) ==
    /\ idx \in DOMAIN range_workers
    /\ range_workers[idx].pc = "spawned"
    /\ LET w == range_workers[idx]
       IN  range_workers' =
              [range_workers EXCEPT ![idx] =
                  IF answered /\ Accepted(status)
                  THEN [w EXCEPT !.pc = "streaming",
                                 !.status = status,
                                 !.current_pos = w.segment_start,
                                 !.body_left =
                                     BodyLen(status, w.segment_start,
                                             w.segment_end)]
                  ELSE [w EXCEPT !.pc = "failed", !.status = status]]
    /\ UNCHANGED <<range_total, range_written, beside_range>>

\* The lengths the next chunk of a body can have: all that is left, or,
\* while the response has chunks to spare, half of it.
NextChunkLens(w) ==
    {w.body_left} \cup
    (IF w.chunks + 1 < MaxRangeChunks /\ w.body_left >= 2
     THEN {w.body_left \div 2} ELSE {})

\* One item of the stream: seek to current_pos, write the chunk, advance.
RangeChunk(idx, chunk_len) ==
    /\ idx \in DOMAIN range_workers
    /\ range_workers[idx].pc = "streaming"
    /\ range_workers[idx].body_left > 0
    /\ chunk_len \in NextChunkLens(range_workers[idx])
    /\ LET w == range_workers[idx]
       IN  /\ range_written' =
                 range_written \cup
                    {[idx |-> idx,
                      lo  |-> w.current_pos,
                      hi  |-> w.current_pos + chunk_len - 1]}
           /\ range_workers' =
                 [range_workers EXCEPT ![idx] =
                     [w EXCEPT !.current_pos = w.current_pos + chunk_len,
                               !.body_left = w.body_left - chunk_len,
                               !.chunks = w.chunks + 1]]
    /\ UNCHANGED <<range_total, beside_range>>

\* An item of the stream is an error.
RangeStreamError(idx) ==
    /\ idx \in DOMAIN range_workers
    /\ range_workers[idx].pc = "streaming"
    /\ range_workers[idx].body_left > 0
    /\ range_workers' = [range_workers EXCEPT ![idx].pc = "failed"]
    /\ UNCHANGED <<range_total, range_written, beside_range>>

\* The stream ended: Ok(idx).
RangeEnd(idx) ==
    /\ idx \in DOMAIN range_workers
    /\ range_workers[idx].pc = "streaming"
    /\ range_workers[idx].body_left = 0
    /\ range_workers' = [range_workers EXCEPT ![idx].pc = "done"]
    /\ UNCHANGED <<range_total, range_written, beside_range>>

RangeChunkLens ==
    UNION {{n, n \div 2, n - n \div 2} :
              n \in DownloadSizes \cup
                    {size \div get_segment_count(size) : size \in DownloadSizes}
                    \cup
                    {size - (get_segment_count(size) - 1)
                              * (size \div get_segment_count(size)) :
                        size \in DownloadSizes}}

RangeNext ==
    \E idx \in 0 .. 7 :
       \/ \E answered \in BOOLEAN, status \in Statuses :
             RangeRequest(idx, answered, status)
       \/ \E chunk_len \in RangeChunkLens : RangeChunk(idx, chunk_len)
       \/ RangeStreamError(idx)
       \/ RangeEnd(idx)

(***************************************************************************)
(* download_with_resume calls that overlap in one process: the cancel flag *)
(* is one static for all of them                                           *)
(***************************************************************************)
\* The calls, the segment tasks of each and the chunks of each task's body.
MaxTransfers == 2
TasksPerTransfer == 2
ChunksPerBody == 2

FlagInit ==
    /\ cancel_flag = FALSE
    /\ transfers = [t \in 1 .. MaxTransfers |->
                       [pc     |-> "idle",
                        joined |-> 0,
                        result |-> None,
                        tasks  |-> [k \in 1 .. TasksPerTransfer |->
                                       [st          |-> "unspawned",
                                        chunks_left |-> 0]]]]
    /\ owed = {}
    /\ missed = {}
    /\ PlanIdle
    /\ VerifyIdle
    /\ EngineIdle
    /\ PermitIdle
    /\ WriteIdle
    /\ BatchIdle
    /\ QueueIdle
    /\ InstallIdle
    /\ PairIdle
    /\ ThrottleIdle
    /\ RangeIdle
    /\ OverlapIdle

\* The tasks of the running calls that are in their stream loop with a
\* chunk still to come.
StreamingTasks ==
    {tk \in (1 .. MaxTransfers) \X (1 .. TasksPerTransfer) :
        /\ transfers[tk[1]].pc = "joining"
        /\ transfers[tk[1]].tasks[tk[2]].st = "streaming"
        /\ transfers[tk[1]].tasks[tk[2]].chunks_left > 0}

\* download_with_resume from its entry to the end of the spawn loop: the
\* flag is reset, a task is spawned per segment.
FlagStart(t) ==
    /\ transfers[t].pc = "idle"
    /\ cancel_flag' = FALSE
    /\ transfers' = [transfers EXCEPT
           ![t].pc = "joining",
           ![t].tasks = [k \in 1 .. TasksPerTransfer |->
                            [st |-> "spawned", chunks_left |-> 0]]]
    /\ UNCHANGED <<owed, missed, beside_flag>>

\* cancel_java_download: the flag is set.  The tasks streaming at this
\* moment are recorded.
FlagCancel ==
    /\ cancel_flag' = TRUE
    /\ owed' = owed \cup StreamingTasks
    /\ UNCHANGED <<transfers, missed, beside_flag>>

\* A task has its permit: it looks at the flag, sends its request and is
\* answered.
FlagTaskBegin(t, k) ==
    /\ transfers[t].pc = "joining"
    /\ transfers[t].tasks[k].st = "spawned"
    /\ transfers' = [transfers EXCEPT ![t].tasks[k] =
           IF cancel_flag
           THEN [st |-> CancelledError, chunks_left |-> 0]
           ELSE [st |-> "streaming", chunks_left |-> ChunksPerBody]]
    /\ UNCHANGED <<cancel_flag, owed, missed, beside_flag>>

\* The next item of a task's stream: the task looks at the flag and returns
\* the cancelled error, or writes the chunk.
FlagTaskChunk(t, k) ==
    /\ transfers[t].pc \in {"joining", "returned"}
    /\ transfers[t].tasks[k].st = "streaming"
    /\ transfers[t].tasks[k].chunks_left > 0
    /\ transfers' = [transfers EXCEPT ![t].tasks[k] =
           IF cancel_flag
           THEN [@ EXCEPT !.st = CancelledError]
           ELSE [@ EXCEPT !.chunks_left = @ - 1]]
    /\ missed' = IF ~cancel_flag /\ <<t, k>> \in owed
                 THEN missed \cup {<<t, k>>}
                 ELSE missed
    /\ UNCHANGED <<cancel_flag, owed, beside_flag>>

\* The stream of a task is at its end: Ok(idx).
FlagTaskEnd(t, k) ==
    /\ transfers[t].pc \in {"joining", "returned"}
    /\ transfers[t].tasks[k].st = "streaming"
    /\ transfers[t].tasks[k].chunks_left = 0
    /\ transfers' = [transfers EXCEPT ![t].tasks[k].st = "ok"]
    /\ UNCHANGED <<cancel_flag, owed, missed, beside_flag>>

\* The join loop awaits the next handle: Ok(idx) goes on to the next, the
\* cancelled error returns at once.
FlagJoin(t) ==
    /\ transfers[t].pc = "joining"
    /\ transfers[t].joined < TasksPerTransfer
    /\ LET task == transfers[t].tasks[transfers[t].joined + 1]
       IN  /\ task.st \in {"ok", CancelledError}
           /\ transfers' = [transfers EXCEPT ![t] =
                  IF task.st = CancelledError
                  THEN [@ EXCEPT !.pc = "returned",
                                 !.result = Some(CancelledError)]
                  ELSE [@ EXCEPT !.joined = @ + 1]]
    /\ UNCHANGED <<cancel_flag, owed, missed, beside_flag>>

\* Every handle was awaited and gave Ok: the call goes on to its end.
FlagFinish(t) ==
    /\ transfers[t].pc = "joining"
    /\ transfers[t].joined = TasksPerTransfer
    /\ transfers' = [transfers EXCEPT ![t].pc = "returned",
                                      ![t].result = Some("Ok")]
    /\ UNCHANGED <<cancel_flag, owed, missed, beside_flag>>

FlagNext ==
    \/ FlagCancel
    \/ \E t \in 1 .. MaxTransfers :
          \/ FlagStart(t)
          \/ FlagJoin(t)
          \/ FlagFinish(t)
          \/ \E k \in 1 .. TasksPerTransfer :
                \/ FlagTaskBegin(t, k)
                \/ FlagTaskChunk(t, k)
                \/ FlagTaskEnd(t, k)

(***************************************************************************)
(* download_and_install_java calls for different keys that overlap: each   *)
(* call keeps the queue it loaded and saves it again at its end            *)
(***************************************************************************)
MaxOverlapCalls == 2

\* The version and type a call is made with: a different key per call.
OverlapVersion(c) == IF c % 2 = 1 THEN 17 ELSE 21
OverlapType(c) == IF c <= 2 THEN "jdk" ELSE "jre"
OverlapKey(c) == <<OverlapVersion(c), OverlapType(c)>>

\* A record left in the queue file by an install that failed in an earlier
\* run of the program.
EarlierRecord ==
    [major_version |-> 17, image_type |-> "jre", download_url |-> "url-a"]

OverlapInit ==
    /\ overlap_queue_file \in {<<>>, <<EarlierRecord>>}
    /\ overlap_calls = [c \in 1 .. MaxOverlapCalls |->
                           [pc |-> "idle", queue |-> <<>>]]
    /\ PlanIdle
    /\ VerifyIdle
    /\ EngineIdle
    /\ PermitIdle
    /\ WriteIdle
    /\ BatchIdle
    /\ QueueIdle
    /\ InstallIdle
    /\ PairIdle
    /\ ThrottleIdle
    /\ RangeIdle
    /\ FlagIdle

\* The command is invoked: the call awaits fetch_release.
OverlapCall(c) ==
    /\ overlap_calls[c].pc = "idle"
    /\ overlap_calls' = [overlap_calls EXCEPT ![c].pc = "fetching"]
    /\ UNCHANGED <<overlap_queue_file, beside_overlap>>

\* fetch_release returns.  With a release the call loads the queue file,
\* adds its record, saves, and calls download_with_resume (or finds the
\* archive on disk).
OverlapFetch(c, success, need_download) ==
    /\ overlap_calls[c].pc = "fetching"
    /\ IF success
       THEN LET queue == add(overlap_queue_file,
                             [major_version |-> OverlapVersion(c),
                              image_type    |-> OverlapType(c),
                              download_url  |-> "url-a"])
            IN  /\ overlap_queue_file' = queue
                /\ overlap_calls' = [overlap_calls EXCEPT ![c] =
                       [pc    |-> IF need_download THEN "transferring"
                                  ELSE "extracting",
                        queue |-> queue]]
       ELSE /\ overlap_calls' = [overlap_calls EXCEPT ![c].pc = "failed early"]
            /\ UNCHANGED overlap_queue_file
    /\ UNCHANGED beside_overlap

\* download_with_resume returns.
OverlapTransferReturn(c, success) ==
    /\ overlap_calls[c].pc = "transferring"
    /\ overlap_calls' = [overlap_calls EXCEPT ![c].pc =
           IF success THEN "extracting" ELSE "failed"]
    /\ UNCHANGED <<overlap_queue_file, beside_overlap>>

\* The archive is unpacked and the installation checked.  With a valid
\* installation the call removes its record from the queue it holds and
\* saves that queue.
OverlapValidate(c, success) ==
    /\ overlap_calls[c].pc = "extracting"
    /\ IF success
       THEN LET queue == remove(overlap_calls[c].queue, OverlapVersion(c),
                                OverlapType(c))
            IN  /\ overlap_queue_file' = queue
                /\ overlap_calls' = [overlap_calls EXCEPT ![c] =
                       [pc |-> "installed", queue |-> queue]]
       ELSE /\ overlap_calls' = [overlap_calls EXCEPT ![c].pc = "failed"]
            /\ UNCHANGED overlap_queue_file
    /\ UNCHANGED beside_overlap

OverlapNext ==
    \E c \in 1 .. MaxOverlapCalls :
       \/ OverlapCall(c)
       \/ \E success \in BOOLEAN, need_download \in BOOLEAN :
             OverlapFetch(c, success, need_download)
       \/ \E success \in BOOLEAN : OverlapTransferReturn(c, success)
       \/ \E success \in BOOLEAN : OverlapValidate(c, success)

(***************************************************************************)
(* download_files against a server that does not serve the file a task's   *)
(* hash declares                                                           *)
(***************************************************************************)
MaxServedTasks == 2

\* The content a task's hash is declared for when the server has another
\* answer for the url: an error status with ServedBody(url) as the body of
\* the error, or a success status with other content.
PublishedContent == <<1, 1, 1>>

ServedProfiles == {"missing", "valid", "not served"}

DeclaredTask(t, profile) ==
    IF profile = "not served"
    THEN [DownloadTask(t, "missing") EXCEPT
             !.sha1 = Some(compute_sha1(PublishedContent))]
    ELSE DownloadTask(t, profile)

DeclaredFileOf(t, profile) ==
    IF profile = "not served" THEN None ELSE FileOf(t, profile)

BatchServedInit ==
    /\ \E n \in 0 .. MaxServedTasks : \E profile \in [1 .. n -> ServedProfiles] :
          /\ tasks = [t \in 1 .. n |-> DeclaredTask(t, profile[t])]
          /\ initial_files = [t \in 1 .. n |-> DeclaredFileOf(t, profile[t])]
          /\ files = [t \in 1 .. n |-> DeclaredFileOf(t, profile[t])]
          /\ futures = [t \in 1 .. n |->
                           [st |-> "queued", downloaded |-> 0,
                            read_failed |-> FALSE]]
          /\ emitted = [t \in 1 .. n |-> <<>>]
          /\ sent = [t \in 1 .. n |-> 0]
    /\ max_concurrent \in {1, 2}
    /\ batch_pc = "called"
    /\ clamped = 1
    /\ batch_semaphore = 0
    /\ completed_files = 0
    /\ total_downloaded_bytes = 0
    /\ pulled = 0
    /\ batch_result = None
    /\ window_events = <<>>
    /\ PlanIdle
    /\ VerifyIdle
    /\ EngineIdle
    /\ PermitIdle
    /\ WriteIdle
    /\ LaterIdle

vars == <<plan_vars, verify_vars, engine_vars, other_vars>>

SpecBatchServed == BatchServedInit /\ [][BatchNext]_vars


SpecOverlap == OverlapInit /\ [][OverlapNext]_vars


SpecFlag == FlagInit /\ [][FlagNext]_vars


SpecRange == RangeInit /\ [][RangeNext]_vars


SpecThrottle == ThrottleInit /\ [][ThrottleNext]_vars


SpecPair == PairInit /\ [][PairNext]_vars


SpecInstall == InstallInit /\ [][InstallNext]_vars


SpecQueue == QueueInit /\ [][QueueNext]_vars

SpecQueueAny == QueueAnyInit /\ [][QueueNext]_vars


SpecBatch == BatchInit /\ [][BatchNext]_vars

\* The runtime polls every future that can make progress, and every request
\* and file operation completes or fails: a step of download_files that can
\* be taken is eventually taken.
SpecBatchFair == BatchInit /\ [][BatchNext]_vars /\ WF_vars(BatchNext)


SpecWrite == WriteInit /\ [][WriteNext]_vars


SpecPermits == PermitInit /\ [][PermitNext]_vars


SpecPlan == PlanInit /\ [][PlanNext]_vars

SpecVerify == VerifyInit /\ [][VerifyNext]_vars

Spec == EngineInit /\ [][Next]_vars

(***************************************************************************)
(* Properties                                                              *)
(***************************************************************************)

IsPartition(segments, total) ==
    LET n == Cardinality(DOMAIN segments) IN
    /\ n >= 1
    /\ DOMAIN segments = 0 .. (n - 1)
    /\ segments[0].start = 0
    /\ \A i \in 1 .. (n - 1) : segments[i].start = segments[i - 1].end + 1
    /\ \A i \in 0 .. (n - 1) : segments[i].start <= segments[i].end
    /\ segments[n - 1].end = total - 1

\* C2: for any total size, 0 included, create_new_metadata returns segments
\* that partition [0, total), without integer underflow.
C2_PlanIsPartition ==
    plan_meta # NotComputed =>
        /\ Unwrap(plan_meta) # Panicked
        /\ IsPartition(Unwrap(plan_meta).segments, plan_size)

\* C3: verify_checksum is decided by the SHA-256 expectation alone when one is
\* given, else by the SHA-1 expectation, and is true when neither is given.
C3_VerifyMatchesReference ==
    v_result # NotComputed =>
        /\ IsSome(v_sha256) =>
               (Unwrap(v_result) <=> compute_sha256(v_data) = Unwrap(v_sha256))
        /\ (~IsSome(v_sha256) /\ IsSome(v_sha1)) =>
               (Unwrap(v_result) <=> compute_sha1(v_data) = Unwrap(v_sha1))
        /\ (~IsSome(v_sha256) /\ ~IsSome(v_sha1)) => Unwrap(v_result) = TRUE

\* Both expectations given, the SHA-256 one matching and the SHA-1 one not.
C3_Witness ==
    /\ v_result = Some(TRUE)
    /\ IsSome(v_sha256) /\ IsSome(v_sha1)
    /\ compute_sha1(v_data) # Unwrap(v_sha1)

(***************************************************************************)
(* Properties of download_with_resume                                      *)
(***************************************************************************)
Segments == Unwrap(metadata).segments
Sidecar == Unwrap(from_str(Unwrap(meta_file)))
ChecksumFailed == Some("Checksum verification failed")

\* C4: a call that loaded a plan with N of M segments completed spawns tasks
\* and sends range requests for the other M - N segments only.
C4_ResumeSkipsCompleted ==
    pc # "idle" =>
        /\ {w.idx : w \in MyWorkers} = DOMAIN Segments \ loaded_completed
        /\ \A r \in requests : r.idx \notin loaded_completed
        /\ Cardinality(requests)
               <= Cardinality(DOMAIN Segments) - Cardinality(loaded_completed)

\* A resumed call with completed segments has sent a request.
C4_Witness ==
    /\ pc = "joining"
    /\ loaded_completed # {}
    /\ requests # {}

\* C5: after the process is terminated with k segments finished, the
\* restarted call sends no request for a segment that had finished.
C5_RestartSkipsFinished ==
    \A r \in requests : r.idx \notin finished_at_crash

C7_MismatchDeletesAndRestarts ==
    [][/\ (pc = "joining" /\ pc' = "returned" /\ result' = ChecksumFailed) =>
              /\ part_file' = None
              /\ meta_file' = None
              /\ dest_file' = dest_file
       /\ (pc = "returned" /\ result = ChecksumFailed /\ pc' = "joining") =>
              /\ \A i \in DOMAIN Segments' :
                    /\ ~Segments'[i].completed
                    /\ Segments'[i].downloaded = 0
              /\ Unwrap(metadata').downloaded_bytes = 0
              /\ progress' = 0
              /\ IsPartition(Segments', total_size)
              /\ {w.idx : w \in workers'} = DOMAIN Segments'
              /\ part_file' = Some(NewFile(next_inode))]_vars

\* The call after a checksum mismatch is sending requests.
C7_Witness ==
    /\ pc = "joining"
    /\ prev_result = ChecksumFailed
    /\ requests # {}

RECURSIVE TotalLen(_)
TotalLen(extents) ==
    IF extents = {} THEN 0
    ELSE LET e == CHOOSE x \in extents : TRUE
         IN  e.len + TotalLen(extents \ {e})

C9_FailureKeepsCompleted ==
    [][(/\ pc = "joining" /\ pc' = "returned"
        /\ result' \in {Some(CancelledError), Some("Some segments failed")}) =>
           /\ IsSome(meta_file')
           /\ \A w \in MyWorkers :
                  w.st = "ok" => Sidecar'.segments[w.idx].completed]_vars

\* C10: a call that has returned has no task still running, and the byte
\* count it saved is the final value of its counter.
C10_ReturnsAfterAllTasks ==
    pc = "returned" =>
        /\ \A w \in MyWorkers : w.st \notin Running
        /\ IsSome(meta_file) => Sidecar.downloaded_bytes = progress

\* C11: the sidecar is saved when a plan is created and at every change of a
\* segment's state: a call in flight with a part file has a sidecar on disk,
\* and the sidecar on disk is the transfer state the call holds.
C11_SidecarAlwaysPersisted ==
    (pc = "joining" /\ IsSome(part_file)) =>
        /\ IsSome(meta_file)
        /\ from_str(Unwrap(meta_file)) = metadata

\* C12: when download_with_resume returns Ok the destination is the file
\* that was the part file (renamed, with its content), no part file is left
\* and no sidecar is left.
C12_OkLeavesOnlyDestination ==
    /\ []((pc = "returned" /\ result = Some("Ok")) =>
              /\ IsSome(dest_file)
              /\ part_file = None
              /\ meta_file = None)
    /\ [][(pc = "joining" /\ pc' = "returned" /\ result' = Some("Ok")) =>
              /\ IsSome(part_file)
              /\ dest_file' = part_file
              /\ ReadFile(Unwrap(dest_file')) = ReadFile(Unwrap(part_file))]_vars

\* A call that resumed from a sidecar has returned Ok.
C12_Witness ==
    /\ pc = "returned"
    /\ result = Some("Ok")
    /\ loaded_completed # {}
    /\ IsSome(dest_file)

\* C13: a task that finds the flag set, at its start or when a chunk
\* arrives, ends with the cancelled error and that step writes nothing to
\* the part file; the segment of a task that ended so is not completed in the
\* state the call holds nor in the sidecar on disk.
C13_CancelledWorkerNotCompleted ==
    /\ [](\A w \in MyWorkers :
             w.st = CancelledError =>
                 /\ ~Segments[w.idx].completed
                 /\ IsSome(meta_file) => ~Sidecar.segments[w.idx].completed)
    /\ [][\A w \in workers :
             (/\ java_download_cancelled
              /\ \/ w.st = "spawned"
                 \/ w.st = "streaming" /\ w.received < ChunksPerResponse
              /\ w \notin workers'
              /\ crashes' = crashes) =>
                 /\ [w EXCEPT !.st = CancelledError] \in workers'
                 /\ part_file' = part_file
                 /\ dest_file' = dest_file]_vars

\* A cancelled call has saved a sidecar in which the segment of the task that
\* observed the flag is open and another segment is completed.
C13_Witness ==
    /\ pc = "returned"
    /\ IsSome(meta_file)
    /\ \E w \in MyWorkers :
          /\ w.st = CancelledError
          /\ ~Sidecar.segments[w.idx].completed
    /\ \E i \in DOMAIN Sidecar.segments : Sidecar.segments[i].completed

(***************************************************************************)
(* Properties of the semaphore of download_with_resume                     *)
(***************************************************************************)
PermitHolders == {i \in DOMAIN sem_tasks : sem_tasks[i] \in {"requesting", "streaming"}}

\* C14: in one call, the tasks holding a permit (requesting or streaming)
\* are never more than the smaller of the plan's segment count and 8, for a
\* fresh plan and for a plan loaded from a sidecar.
C14_PermitHoldersBounded ==
    sem_pc = "joining" =>
        /\ Cardinality(PermitHolders) <= sem_segment_count
        /\ Cardinality(PermitHolders) <= 8

\* A loaded plan of more than 8 open segments: 8 tasks hold a permit and
\* another waits for one.
C14_Witness ==
    /\ sem_pc = "joining"
    /\ sem_segment_count > 8
    /\ Cardinality(PermitHolders) = 8
    /\ \E i \in DOMAIN sem_tasks : sem_tasks[i] = "acquiring"

(***************************************************************************)
(* Properties of the shared part file handle                               *)
(***************************************************************************)
InWriteSection == {w \in DOMAIN writers : writers[w].st \in {"seeking", "writing"}}

\* C15: at most one task of a call is between its seek and the end of its
\* write, that task is the holder of the guard, no other task moves the
\* handle's position in between, and every chunk lands at the position its
\* task sought to.
C15_WritesSerialized ==
    /\ [](/\ Cardinality(InWriteSection) <= 1
          /\ \A w \in InWriteSection : file_guard = Some(w)
          /\ \A c \in landed : c.pos = c.sought
          /\ \A c, d \in landed :
                (c # d) => (c.pos + c.len <= d.pos \/ d.pos + d.len <= c.pos))
    /\ [][\A w \in DOMAIN writers :
             (writers[w].st = "writing" /\ writers'[w].st = "writing") =>
                 file_position' = file_position]_vars

\* One task is between seek and write while another waits for the guard
\* with a chunk in hand, and chunks of two tasks have been written.
C15_Witness ==
    /\ \E w \in DOMAIN writers : writers[w].st = "writing"
    /\ \E w \in DOMAIN writers : writers[w].st = "locking"
    /\ \E c, d \in landed : c.task # d.task

(***************************************************************************)
(* Properties of download_files                                            *)
(***************************************************************************)
Count(events, status) ==
    Cardinality({i \in DOMAIN events : events[i] = status})

HashDeclared(t) == IsSome(tasks[t].sha256) \/ IsSome(tasks[t].sha1)

RECURSIVE SizeOfFiles(_)
SizeOfFiles(n) ==
    IF n = 0 THEN 0
    ELSE SizeOfFiles(n - 1) + (IF IsSome(files[n]) THEN Len(Unwrap(files[n]))
                               ELSE 0)

\* C16: a task whose destination exists, is read and verifies against a
\* declared hash is skipped; for a skipped task no request is sent, the
\* destination keeps its content, one Skipped event is emitted, and the step
\* that skips it adds the file's size to the byte counter and one to the
\* completed-file counter.
C16_ValidTaskSkipped ==
    /\ [](\A t \in DOMAIN futures :
             /\ futures[t].st = "Skipped" =>
                   /\ sent[t] = 0
                   /\ files[t] = initial_files[t]
                   /\ Count(emitted[t], "Skipped") = 1
                   /\ Count(emitted[t], "Finished") = 0
                   /\ Count(emitted[t], "Downloading") = 0
             /\ (/\ futures[t].st \in Settled
                 /\ IsSome(initial_files[t])
                 /\ HashDeclared(t)
                 /\ ~futures[t].read_failed
                 /\ compute_sha1(Unwrap(initial_files[t])) = Unwrap(tasks[t].sha1))
                    => futures[t].st = "Skipped")
    /\ [][\A t \in DOMAIN futures :
             (futures[t].st # "Skipped" /\ futures'[t].st = "Skipped") =>
                 /\ total_downloaded_bytes' =
                        total_downloaded_bytes + Len(Unwrap(initial_files[t]))
                 /\ completed_files' = completed_files + 1
                 /\ sent' = sent
                 /\ files' = files]_vars

\* A task has been skipped while another task of the batch is writing.
C16_Witness ==
    /\ \E t \in DOMAIN futures :
          futures[t].st = "Skipped" /\ total_downloaded_bytes >= 2
    /\ \E t \in DOMAIN futures : futures[t].st = "writing"

\* C17: when every task of the batch has been skipped or has finished, one
\* request has been sent per task that was not skipped and none for a skipped
\* one, every task has one terminal event, the completed-file counter is the
\* number of tasks and the byte counter is the sum of the sizes of all the
\* destination files.
C17_AllSuccessTotals ==
    (/\ batch_pc # "called"
     /\ \A t \in DOMAIN futures : futures[t].st \in {"Skipped", "Finished"}) =>
        /\ \A t \in DOMAIN futures :
              /\ sent[t] = IF futures[t].st = "Skipped" THEN 0 ELSE 1
              /\ Count(emitted[t], "Skipped") + Count(emitted[t], "Finished") = 1
              /\ Count(emitted[t], futures[t].st) = 1
        /\ completed_files = Len(tasks)
        /\ total_downloaded_bytes = SizeOfFiles(Len(tasks))

\* Three tasks, one of them valid on disk, at most two at a time: the call
\* has returned with one task skipped and two finished.
C17_Witness ==
    /\ batch_pc = "returned"
    /\ Len(tasks) = 3
    /\ clamped = 2
    /\ Cardinality({t \in DOMAIN futures : futures[t].st = "Skipped"}) = 1
    /\ Cardinality({t \in DOMAIN futures : futures[t].st = "Finished"}) = 2

\* C18: download_files returns Ok whatever the tasks returned.
C18_ReturnsOkWhateverFailed ==
    batch_pc = "returned" => batch_result = Some("Ok")

\* The call has returned with all of its three tasks failed, in three
\* different ways.
C18_Witness ==
    /\ batch_pc = "returned"
    /\ Len(tasks) = 3
    /\ \A t \in DOMAIN futures : futures[t].st \in TaskErrors
    /\ Cardinality({futures[t].st : t \in DOMAIN futures}) = 3

\* C19: download_files has returned, or download-complete has been emitted,
\* only with every task of the batch taken from the stream and settled.
C19_ReturnsAfterAllSettled ==
    (\/ batch_pc = "returned"
     \/ \E i \in DOMAIN window_events : window_events[i][1] = "download-complete")
        => /\ pulled = Len(tasks)
           /\ \A t \in DOMAIN futures : futures[t].st \in Settled
           /\ batch_semaphore = clamped

\* The call has returned after running three tasks one at a time, one of
\* them failed and one finished.
C19_Witness ==
    /\ batch_pc = "returned"
    /\ Len(tasks) = 3
    /\ clamped = 1
    /\ \E t \in DOMAIN futures : futures[t].st \in TaskErrors
    /\ \E t \in DOMAIN futures : futures[t].st = "Finished"

BatchActive ==
    {t \in DOMAIN futures : futures[t].st \in {"verifying", "requesting", "writing"}}

\* C20: the limit the call works with is max_concurrent brought into
\* [1, 128] (0 gives 1, more than 128 gives 128), and the tasks verifying,
\* requesting or writing are never more than that limit.
C20_ConcurrencyClamped ==
    batch_pc # "called" =>
        /\ clamped \in 1 .. 128
        /\ max_concurrent \in 1 .. 128 => clamped = max_concurrent
        /\ max_concurrent < 1 => clamped = 1
        /\ max_concurrent > 128 => clamped = 128
        /\ Cardinality(BatchActive) <= clamped

\* Called with max_concurrent = 0: one task is writing and the others are
\* still in the stream.
C20_Witness ==
    /\ max_concurrent = 0
    /\ Len(tasks) = 3
    /\ \E t \in DOMAIN futures : futures[t].st = "writing"
    /\ Cardinality({t \in DOMAIN futures : futures[t].st = "queued"}) = 2

(***************************************************************************)
(* Properties of DownloadQueue                                             *)
(***************************************************************************)
SameKey(d, e) ==
    d.major_version = e.major_version /\ d.image_type = e.image_type

\* The positions of a queue whose record has another key than d, ascending.
RECURSIVE OtherPositions(_, _, _)
OtherPositions(queue, d, from) ==
    IF from > Len(queue) THEN <<>>
    ELSE (IF SameKey(queue[from], d) THEN <<>> ELSE <<from>>)
         \o OtherPositions(queue, d, from + 1)

\* C21: in a queue built from the empty one by add and remove no two records
\* have the same (major_version, image_type), and after add(r) the one
\* record with r's key is r itself.
C21_OneRecordPerKey ==
    /\ \A i, j \in DOMAIN pending_downloads :
          SameKey(pending_downloads[i], pending_downloads[j]) => i = j
    /\ (IsSome(queue_op) /\ Unwrap(queue_op).op = "add") =>
          \A i \in DOMAIN pending_downloads :
             SameKey(pending_downloads[i], Unwrap(queue_op).arg)
                 => pending_downloads[i] = Unwrap(queue_op).arg

\* add(r) has replaced a record of r's key that differed from r, in a queue
\* with another record.
C21_Witness ==
    /\ IsSome(queue_op)
    /\ Unwrap(queue_op).op = "add"
    /\ Len(pending_downloads) >= 2
    /\ \E i \in DOMAIN Unwrap(queue_op).before :
          /\ SameKey(Unwrap(queue_op).before[i], Unwrap(queue_op).arg)
          /\ Unwrap(queue_op).before[i] # Unwrap(queue_op).arg

\* C25: add(r) keeps the records of other keys, unchanged and in their
\* order, followed by r; remove(k) keeps exactly the records of other keys,
\* unchanged and in their order, and changes nothing when no record has k.
C25_AddRemoveFrame ==
    IsSome(queue_op) =>
        LET before == Unwrap(queue_op).before
            arg    == Unwrap(queue_op).arg
            kept   == OtherPositions(before, arg, 1)
            rest   == [i \in 1 .. Len(kept) |-> before[kept[i]]]
        IN  /\ Unwrap(queue_op).op = "add" =>
                  /\ Len(pending_downloads) = Len(kept) + 1
                  /\ pending_downloads[Len(pending_downloads)] = arg
                  /\ SubSeq(pending_downloads, 1, Len(kept)) = rest
            /\ Unwrap(queue_op).op = "remove" =>
                  /\ pending_downloads = rest
                  /\ (\A i \in DOMAIN before : ~SameKey(before[i], arg))
                         => pending_downloads = before

\* remove(k) has taken two records of key k out of a loaded queue and left a
\* record of another key with the same major version.
C25_Witness ==
    /\ IsSome(queue_op)
    /\ Unwrap(queue_op).op = "remove"
    /\ Len(Unwrap(queue_op).before) = Len(pending_downloads) + 2
    /\ \E i \in DOMAIN pending_downloads :
          pending_downloads[i].major_version = Unwrap(queue_op).arg.major_version

(***************************************************************************)
(* The pending record over a download_and_install_java call                *)
(***************************************************************************)
InstallKey == JavaKey(Unwrap(install))

\* C22: the record of the key of a call is in the persisted queue whenever
\* the call is past its save, in particular when its transfer starts and
\* while it runs; a key leaves the persisted queue only in the step that
\* returns the validated installation of that key, which comes after the
\* archive was obtained and unpacked; and a call that returns an error
\* after its save leaves the record of its key in the persisted queue.
C22_RecordUntilValidated ==
    [][/\ IsSome(install') /\ Unwrap(install').pc # "fetching"
          => JavaKey(Unwrap(install')) \in QueueKeys(queue_file')
       /\ \A key \in QueueKeys(queue_file) \ QueueKeys(queue_file') :
             /\ IsSome(install)
             /\ key = InstallKey
             /\ Unwrap(install).pc = "validating"
             /\ install_result' = Some([key   |-> key,
                                        ok    |-> TRUE,
                                        stage |-> "validating"])
       /\ ( /\ IsSome(install)
            /\ Unwrap(install).pc # "fetching"
            /\ install' = None
            /\ ~Unwrap(install_result').ok )
          => InstallKey \in QueueKeys(queue_file')]_vars

\* A cancelled transfer has made the call return and the record is in the
\* persisted queue.
C22_Witness ==
    /\ install = None
    /\ IsSome(install_result)
    /\ ~Unwrap(install_result).ok
    /\ Unwrap(install_result).stage = "transferring"
    /\ cancel_requested
    /\ Unwrap(install_result).key \in QueueKeys(queue_file)

\* An unpacking that failed has made the call return and the record is in
\* the persisted queue.
C22_WitnessUnpack ==
    /\ install = None
    /\ IsSome(install_result)
    /\ ~Unwrap(install_result).ok
    /\ Unwrap(install_result).stage = "extracting"
    /\ Unwrap(install_result).key \in QueueKeys(queue_file)

(***************************************************************************)
(* resume_pending_downloads                                                *)
(***************************************************************************)
\* What a resume that has returned has done: attempts, installations and
\* the persisted queue at its return.
ResumeOutcome ==
    IsSome(resume) /\ Unwrap(resume).done =>
       LET r == Unwrap(resume)
           succeeded == SelectSeq(r.attempts, LAMBDA a : a.ok)
       IN  /\ Len(r.attempts) = Len(r.loaded)
           /\ \A i \in DOMAIN r.attempts :
                 r.attempts[i].key = JavaKey(r.loaded[i])
           /\ r.installed = [i \in 1 .. Len(succeeded) |-> succeeded[i].key]
           /\ \A i \in DOMAIN r.attempts :
                 r.attempts[i].ok <=> r.attempts[i].key \notin QueueKeys(r.persisted)

\* The resume loop has gone on to the second record of its queue after the
\* first failed.
ResumeContinued ==
    /\ IsSome(resume)
    /\ Unwrap(resume).done
    /\ Len(Unwrap(resume).attempts) = 2
    /\ ~Unwrap(resume).attempts[1].ok
    /\ Unwrap(resume).attempts[2].ok

\* C23: the transfers of the records of a resume never overlap: of the
\* segment tasks running, no two belong to the same command invocation and
\* to different records; and when the resume has returned,
\* its attempts are the records of the loaded queue in their order, the
\* installations returned are the attempts that succeeded, the key of every
\* failed attempt is in the persisted queue and the key of every attempt
\* that succeeded is not.
C23_ResumeSequential ==
    /\ \A t1, t2 \in transfer_running : t1.call = t2.call => t1 = t2
    /\ ResumeOutcome

(***************************************************************************)
(* One aggregator per download_files invocation                            *)
(***************************************************************************)
RECURSIVE OwnBytesUpTo(_, _)
OwnBytesUpTo(invocation, n) ==
    IF n = 0 THEN 0
    ELSE invocations[invocation].tasks[n].bytes + OwnBytesUpTo(invocation, n - 1)

\* The bytes the tasks of an invocation have added, and its completed tasks.
OwnBytes(invocation) ==
    OwnBytesUpTo(invocation, Len(invocations[invocation].tasks))

OwnCompleted(invocation) ==
    Cardinality({t \in DOMAIN invocations[invocation].tasks :
                    invocations[invocation].tasks[t].st = "done"})

\* C24: no two invocations share an aggregator; the aggregator of an
\* invocation has total_files equal to the task count of the invocation,
\* completed_files equal to the number of its own tasks that completed and
\* total_downloaded_bytes equal to the bytes its own tasks added (so both are
\* 0 when the invocation starts), whatever the other invocation does
\* meanwhile; and the last event of an invocation carries total_files of its
\* own call and counters not above those of its own tasks.
C24_OwnAggregator ==
    /\ \A i1, i2 \in DOMAIN invocations :
          ProgressOf(i1) = ProgressOf(i2) => i1 = i2
    /\ \A invocation \in DOMAIN invocations :
          /\ snapshot(invocation).total_files =
                Len(invocations[invocation].tasks)
          /\ snapshot(invocation).completed_files = OwnCompleted(invocation)
          /\ snapshot(invocation).total_downloaded_bytes = OwnBytes(invocation)
          /\ IsSome(last_event[invocation]) =>
                LET event == Unwrap(last_event[invocation])
                IN  /\ event.total_files = Len(invocations[invocation].tasks)
                    /\ event.completed_files <= OwnCompleted(invocation)
                    /\ event.total_downloaded_bytes <= OwnBytes(invocation)

\* Two invocations overlap, with different task counts, and each has emitted
\* events of its own tasks: the first has completed a file and the second
\* is downloading, with different byte totals.
C24_Witness ==
    /\ Len(invocations) = 2
    /\ ~invocations[1].returned
    /\ ~invocations[2].returned
    /\ Len(invocations[1].tasks) # Len(invocations[2].tasks)
    /\ IsSome(last_event[1])
    /\ IsSome(last_event[2])
    /\ Unwrap(last_event[1]).completed_files = 1
    /\ Unwrap(last_event[2]).status = "Downloading"
    /\ Unwrap(last_event[1]).total_downloaded_bytes
          # Unwrap(last_event[2]).total_downloaded_bytes
    /\ \E t \in DOMAIN invocations[1].tasks : PairTaskOpen(1, t)

(***************************************************************************)
(* Skipped or downloaded again                                             *)
(***************************************************************************)
IsPrefix(p, q) == Len(p) <= Len(q) /\ \A i \in DOMAIN p : p[i] = q[i]

\* The destination of a task existed at the start, was read and matches the
\* hash the task declares.
InitiallyValid(t) ==
    /\ IsSome(initial_files[t])
    /\ ~futures[t].read_failed
    /\ HashDeclared(t)
    /\ IF IsSome(tasks[t].sha256)
       THEN compute_sha256(Unwrap(initial_files[t])) = Unwrap(tasks[t].sha256)
       ELSE compute_sha1(Unwrap(initial_files[t])) = Unwrap(tasks[t].sha1)

\* C26: a task that has returned was skipped if and only if its destination
\* existed, was read, a hash is declared and the content matches it; for
\* every other task one request was sent, and once the response of that
\* request has come the destination holds nothing of its former content but
\* what was written from the response (all of the served body when the task
\* finished).
C26_SkippedIffValid ==
    \A t \in DOMAIN futures :
       /\ futures[t].st \in Settled =>
             /\ futures[t].st = "Skipped" <=> InitiallyValid(t)
             /\ futures[t].st # "Skipped" => sent[t] = 1
             /\ futures[t].st = "Finished" =>
                   files[t] = Some(ServedBody(tasks[t].url))
       /\ futures[t].st \in {"writing", "Finished", "Write error",
                             "Download error"} =>
             /\ sent[t] = 1
             /\ IsSome(files[t])
             /\ IsPrefix(Unwrap(files[t]), ServedBody(tasks[t].url))
             /\ Len(Unwrap(files[t])) = futures[t].downloaded

\* A destination whose content does not match the declared hash and a
\* destination without a declared hash have both been downloaded again, and
\* a destination that could not be read is being rewritten.
C26_Witness ==
    /\ \E t \in DOMAIN futures :
          /\ HashDeclared(t)
          /\ initial_files[t] = Some(StaleContent)
          /\ futures[t].st = "Finished"
          /\ files[t] = Some(ServedBody(tasks[t].url))
    /\ \E t \in DOMAIN futures :
          /\ ~HashDeclared(t)
          /\ IsSome(initial_files[t])
          /\ futures[t].st = "Finished"
    /\ \E t \in DOMAIN futures :
          /\ futures[t].read_failed
          /\ futures[t].st = "writing"

(***************************************************************************)
(* Segment-granular resume                                                 *)
(***************************************************************************)
NothingDownloaded(m) == \A i \in DOMAIN m.segments : m.segments[i].downloaded = 0

\* C27: the `downloaded` field of every segment is 0 in the metadata the
\* call holds and in every sidecar on the disk, and every range request of
\* a call, a resuming call included, starts at the start of its segment and
\* ends at its end.
C27_SegmentGranular ==
    /\ IsSome(metadata) => NothingDownloaded(Unwrap(metadata))
    /\ IsSome(meta_file) /\ IsSome(from_str(Unwrap(meta_file))) =>
          NothingDownloaded(Unwrap(from_str(Unwrap(meta_file))))
    /\ \A r \in requests :
          /\ r.start = Unwrap(metadata).segments[r.idx].start
          /\ r.end = Unwrap(metadata).segments[r.idx].end
    /\ \A w \in MyWorkers :
          /\ w.segment_start = Unwrap(metadata).segments[w.idx].start
          /\ w.segment_end = Unwrap(metadata).segments[w.idx].end

\* A resuming call whose sidecar recorded bytes but no completed segment has
\* sent the request of every segment, each from the start of the segment.
C27_Witness ==
    /\ call = 2
    /\ pc = "joining"
    /\ loaded_completed = {}
    /\ IsSome(metadata)
    /\ Unwrap(metadata).downloaded_bytes > 0
    /\ Cardinality(requests) = Cardinality(DOMAIN Unwrap(metadata).segments)
    /\ \A r \in requests : r.start = Unwrap(metadata).segments[r.idx].start

(***************************************************************************)
(* The plan of a destination over its runs                                 *)
(***************************************************************************)
\* The plan `new` has the segments of the plan `old`, with the same bounds,
\* and every segment completed in `old` is completed in `new`.
SamePartition(old, new) ==
    /\ DOMAIN new.segments = DOMAIN old.segments
    /\ \A i \in DOMAIN old.segments :
          /\ new.segments[i].start = old.segments[i].start
          /\ new.segments[i].end = old.segments[i].end
          /\ old.segments[i].completed => new.segments[i].completed

\* C28: a call that finds a sidecar that parses takes over its segments,
\* bounds and completed marks, whatever total size it is passed; during a
\* call the segments and bounds of the plan held stay and completed marks are
\* only added; and a sidecar that replaces a sidecar has the same segments
\* and bounds and at least the same completed marks.
C28_NeverRepartitioned ==
    [][/\ (pc # "joining" /\ pc' = "joining" /\ IsSome(LoadedSidecar))
             => SamePartition(Unwrap(LoadedSidecar), Unwrap(metadata'))
       /\ (call' = call /\ IsSome(metadata) /\ IsSome(metadata'))
             => SamePartition(Unwrap(metadata), Unwrap(metadata'))
       /\ (IsSome(LoadedSidecar) /\ IsSome(LoadedSidecar'))
             => SamePartition(Unwrap(LoadedSidecar), Unwrap(LoadedSidecar'))]_vars

\* A resuming call that was passed a total size other than the size its
\* sidecar was planned for holds the plan of the sidecar, one of whose
\* segments was completed by the call before.
C28_Witness ==
    /\ call = 2
    /\ pc = "joining"
    /\ IsSome(metadata)
    /\ size_arg # Unwrap(metadata).total_size
    /\ loaded_completed # {}
    /\ requests # {}

(***************************************************************************)
(* Verification after all segment tasks                                    *)
(***************************************************************************)
\* The call is past its check of all_success: it has verified the part file
\* or, without a checksum, gone on to the rename.
PastJoin ==
    /\ pc = "returned"
    /\ result \in {Some("Ok"), ChecksumFailed}

\* C29: the step in which the call reads and verifies the part file is taken
\* only when every handle of the call was awaited and every task the call
\* spawned has ended with success; after it no task of the call is left to
\* write, and the part file and the byte counter of the call are not
\* written by a task of the call any more.
C29_VerifyAfterAllWorkers ==
    /\ [](PastJoin =>
             /\ all_success
             /\ joined = Len(handles)
             /\ Cardinality(MyWorkers) = Len(handles)
             /\ \A w \in MyWorkers : w.st = "ok")
    /\ [][(pc = "joining" /\ PastJoin') =>
             /\ all_success
             /\ joined = Len(handles)
             /\ \A w \in MyWorkers : w.st = "ok"
             /\ \A i \in DOMAIN Segments : Segments[i].completed]_vars
    /\ [][(PastJoin /\ PastJoin') =>
             /\ progress' = progress
             /\ MyWorkers' = MyWorkers]_vars

\* A call with a checksum has verified the part file after its four segment
\* tasks had all succeeded.
C29_Witness ==
    /\ PastJoin
    /\ IsSome(checksum)
    /\ Cardinality(MyWorkers) = 4
    /\ \A w \in MyWorkers : w.st = "ok"

\* Segments finish in any order: the task of the last segment has succeeded
\* while the task of the first is still streaming and no handle was awaited.
C29_WitnessAnyOrder ==
    /\ pc = "joining"
    /\ joined = 0
    /\ \E w \in MyWorkers : w.idx = handles[Len(handles)] /\ w.st = "ok"
    /\ \E w \in MyWorkers : w.idx = handles[1] /\ w.st = "streaming"
    /\ Len(handles) > 1

(***************************************************************************)
(* The throttle of the Downloading events                                  *)
(***************************************************************************)
\* The value of the event before the i-th, or that of the start of the call.
EventBefore(i) ==
    IF i = 1 THEN 0 ELSE progress_events[i - 1].downloaded_bytes

\* Every event comes more than 100 KiB of counted bytes after the event
\* emitted before it, or carries the total size.
EventsSpaced ==
    \A i \in DOMAIN progress_events :
       \/ progress_events[i].downloaded_bytes - EventBefore(i) > 100 * KiB
       \/ progress_events[i].downloaded_bytes >= throttle_total

\* Events below the total size are no more than one per 100 KiB counted.
EventsPerProgress ==
    Cardinality({i \in DOMAIN progress_events :
                    progress_events[i].downloaded_bytes < throttle_total})
       * (100 * KiB) <= progress_counter

\* When every task is through with its chunks, an event with the total size
\* has been emitted.
FinalEventEmitted ==
    (\A w \in DOMAIN segment_tasks :
        /\ segment_tasks[w].pc = "streaming"
        /\ segment_tasks[w].chunks = <<>>)
       => \E i \in DOMAIN progress_events :
             progress_events[i].downloaded_bytes = throttle_total

\* C30: each Downloading event is more than 100 KiB of counted bytes after
\* the event emitted before it or carries the total size, the events below
\* the total size are at most one per 100 KiB counted, and when all chunks
\* are counted an event with the total size has been emitted.
C30_ThrottledEvents ==
    /\ EventsSpaced
    /\ EventsPerProgress
    /\ FinalEventEmitted

\* No task has panicked on the subtraction of the throttle.
ThrottleNeverPanics ==
    \A w \in DOMAIN segment_tasks : segment_tasks[w].pc # "panicked"

(***************************************************************************)
(* The counters of a download_files invocation                             *)
(***************************************************************************)
Completed == {t \in DOMAIN futures : futures[t].st \in {"Skipped", "Finished"}}

\* C31: the completed-file counter is the number of tasks that were skipped
\* or have finished, so it is at most the number of tasks; a task has at
\* most one Skipped or Finished event and a failed task has none; and no
\* step lowers the completed-file counter or the byte counter, the
\* completed-file counter rising by one exactly in the step in which one
\* task is skipped or finishes.
C31_CountersBounded ==
    /\ [](/\ completed_files <= Len(tasks)
          /\ completed_files = Cardinality(Completed)
          /\ \A t \in DOMAIN futures :
                /\ Count(emitted[t], "Skipped") + Count(emitted[t], "Finished")
                      = IF t \in Completed THEN 1 ELSE 0
                /\ futures[t].st \in TaskErrors => t \notin Completed)
    /\ [][/\ completed_files' >= completed_files
          /\ total_downloaded_bytes' >= total_downloaded_bytes
          /\ completed_files' - completed_files
                = Cardinality(Completed' \ Completed)
          /\ Cardinality(Completed' \ Completed) <= 1
          /\ Completed \subseteq Completed']_vars

\* The call has returned with a task that failed after bytes of it were
\* counted and a task that finished: one file completed of two or more.
C31_Witness ==
    /\ batch_pc = "returned"
    /\ \E t \in DOMAIN futures :
          futures[t].st = "Download error" /\ futures[t].downloaded >= 1
    /\ \E t \in DOMAIN futures : futures[t].st = "Finished"
    /\ completed_files = 1
    /\ total_downloaded_bytes >= 2

(***************************************************************************)
(* C32: every byte a segment task writes lies inside its own segment's     *)
(* [start, end], whatever successful response the server gives (206 with   *)
(* the requested range or 200 with the whole file), and tasks of different *)
(* segments never write the same offset.                                   *)
(***************************************************************************)
InsideOwnSegment(written) ==
    /\ RangeSegments[written.idx].start <= written.lo
    /\ written.hi <= RangeSegments[written.idx].end

Disjoint(w1, w2) == w1.hi < w2.lo \/ w2.hi < w1.lo

C32_WritesInsideSegment ==
    /\ \A written \in range_written : InsideOwnSegment(written)
    /\ \A w1, w2 \in range_written : w1.idx # w2.idx => Disjoint(w1, w2)

\* The part of C32 that holds: the writes of the tasks that were answered
\* 206 lie inside their segments and are disjoint across segments.
PartialWrites ==
    {written \in range_written :
        range_workers[written.idx].status = PARTIAL_CONTENT}

WritesInsideWhenPartial ==
    /\ \A written \in PartialWrites : InsideOwnSegment(written)
    /\ \A w1, w2 \in PartialWrites : w1.idx # w2.idx => Disjoint(w1, w2)

\* Every task was answered 206 and wrote its whole body in two chunks.
AllPartialDone ==
    /\ Cardinality(DOMAIN range_workers) = 4
    /\ \A idx \in DOMAIN range_workers :
          /\ range_workers[idx].pc = "done"
          /\ range_workers[idx].status = PARTIAL_CONTENT
          /\ range_workers[idx].chunks = 2

(***************************************************************************)
(* C33: across runs that failed or were cancelled and the runs resuming    *)
(* them, the cumulative byte count (the counter of the call, which is the  *)
(* value the events carry, and the value saved in the sidecar) never       *)
(* exceeds the total size, and equals it once all segments are completed:  *)
(* bytes of a segment that was not completed are not counted again.        *)
(***************************************************************************)
AllSegmentsCompleted ==
    /\ IsSome(metadata)
    /\ \A i \in DOMAIN Unwrap(metadata).segments :
          Unwrap(metadata).segments[i].completed

C33_CumulativeBytes ==
    /\ progress <= total_size
    /\ IsSome(LoadedSidecar) =>
          Unwrap(LoadedSidecar).downloaded_bytes <= total_size
    /\ (pc = "joining" /\ AllJoined /\ AllSegmentsCompleted) =>
          progress = total_size

\* The part of C33 that holds: in a first call, which starts from an empty
\* plan, the counter stays within the total size and reaches it when all
\* segments are completed.
FirstCallBytes ==
    (call = 1 /\ ~IsSome(prev_result) /\ crashes = 0) =>
       /\ progress <= total_size
       /\ (pc = "joining" /\ AllJoined /\ AllSegmentsCompleted) =>
             progress = total_size

(***************************************************************************)
(* C34: the subtraction of the throttle, total_downloaded - last_bytes,    *)
(* never underflows: whenever a task is about to evaluate it, the value it *)
(* loaded from last_progress_bytes is at most the total it got from its    *)
(* own fetch_add, under any interleaving of the segment tasks.             *)
(***************************************************************************)
C34_NoUnderflow ==
    \A w \in DOMAIN segment_tasks :
       /\ segment_tasks[w].pc = "loaded" =>
             segment_tasks[w].last_bytes <= segment_tasks[w].total_downloaded
       /\ segment_tasks[w].pc # "panicked"

(***************************************************************************)
(* C35: download_with_resume clears the cancel flag at its entry, before   *)
(* any segment task is launched, so a cancel requested before the call     *)
(* starts has no effect on it: the step that starts a call leaves the flag *)
(* clear and the call's tasks not yet run; the flag is set only by a       *)
(* cancel request; a task ends with the cancelled error only when the flag *)
(* is set; and a call returns the cancelled error only when one of its own *)
(* tasks ended with it.  A call that follows a cancelled call, as the next *)
(* record of resume_pending_downloads does, therefore proceeds.            *)
(***************************************************************************)
C35_ResetOnEntry ==
    /\ [][call' = call + 1 =>
             /\ ~java_download_cancelled'
             /\ \A w \in workers' : w.call = call' => w.st = "spawned"]_vars
    /\ [][(java_download_cancelled' /\ ~java_download_cancelled) =>
             cancels' = cancels + 1]_vars
    /\ [][\A w \in workers' \ workers :
             w.st = CancelledError => java_download_cancelled]_vars
    /\ [][(result' = Some(CancelledError) /\ result # result') =>
             \E w \in workers : w.call = call /\ w.st = CancelledError]_vars

\* A call that started with the flag set by the cancel of the call before
\* it has returned Ok.
C35_Witness ==
    /\ call = 2
    /\ cancels = 1
    /\ crashes = 0
    /\ prev_result = Some(CancelledError)
    /\ pc = "returned"
    /\ result = Some("Ok")

\* In download_and_install_java, hence for every record of
\* resume_pending_downloads, a transfer begins with the flag clear.
Transferring(frame) == IsSome(frame) /\ Unwrap(frame).pc = "transferring"

TransferStartsClear ==
    [][(Transferring(install') /\ ~Transferring(install)) =>
          ~cancel_requested']_vars

(***************************************************************************)
(* C36: a cancel requested while a transfer is in flight is never lost:    *)
(* every task of it that was streaming at the request sees the flag at its *)
(* next chunk, and the transfer returns the cancelled error, also when     *)
(* another download_with_resume call starts between the request and that   *)
(* chunk.                                                                  *)
(***************************************************************************)
Owing == {t \in 1 .. MaxTransfers : \E k \in 1 .. TasksPerTransfer : <<t, k>> \in owed}

C36_CancelNeverLost ==
    /\ missed = {}
    /\ \A t \in Owing :
          transfers[t].pc = "returned" =>
             transfers[t].result = Some(CancelledError)

\* The part of C36 that holds: while one call only has been started, no
\* task that was streaming at a request has taken a chunk since, and the
\* call has returned the cancelled error or is still running.
OneStarted ==
    Cardinality({t \in 1 .. MaxTransfers : transfers[t].pc # "idle"}) <= 1

CancelSeenByOne ==
    OneStarted =>
       /\ missed = {}
       /\ \A t \in Owing :
             transfers[t].pc = "returned" =>
                transfers[t].result = Some(CancelledError)

\* A cancel reached a streaming task of the one call started and stopped it.
CancelSeen ==
    /\ OneStarted
    /\ \E t \in Owing : transfers[t].result = Some(CancelledError)

(***************************************************************************)
(* C37: when download_and_install_java calls for different keys overlap,   *)
(* the queue file written by one never drops the pending record of         *)
(* another: a key whose transfer was initiated and has not completed       *)
(* successfully (the call is past its save and has not returned a valid    *)
(* installation) is in the persisted queue.                                *)
(***************************************************************************)
PendingCalls ==
    {c \in 1 .. MaxOverlapCalls :
        overlap_calls[c].pc \in {"transferring", "extracting", "failed"}}

C37_OverlapKeepsRecords ==
    \A c \in PendingCalls : OverlapKey(c) \in QueueKeys(overlap_queue_file)

\* The part of C37 that holds: the save at the start of a call keeps the
\* records of the other keys, so while no call has returned an
\* installation every pending key is in the persisted queue.
NoneInstalled ==
    \A c \in 1 .. MaxOverlapCalls : overlap_calls[c].pc # "installed"

SaveAtStartKeepsRecords ==
    NoneInstalled =>
       \A c \in PendingCalls : OverlapKey(c) \in QueueKeys(overlap_queue_file)

\* A step that is not the return of an installation drops no key from the
\* persisted queue.
SaveAtStartDropsNothing ==
    [][NoneInstalled' =>
          QueueKeys(overlap_queue_file) \subseteq QueueKeys(overlap_queue_file')]_vars

\* Two calls are past their save and neither has returned an installation.
TwoPending == NoneInstalled /\ Cardinality(PendingCalls) >= 2

(***************************************************************************)
(* C38: in download_files a task that declares a hash emits Finished and   *)
(* increments the completed counter only if the bytes written to its       *)
(* destination match the hash: a destination reported Finished or Skipped  *)
(* satisfies the hash its task declares.                                   *)
(***************************************************************************)
DeclaresHash(t) == IsSome(tasks[t].sha256) \/ IsSome(tasks[t].sha1)

SatisfiesHash(t) ==
    /\ IsSome(files[t])
    /\ verify_checksum(Unwrap(files[t]), tasks[t].sha256, tasks[t].sha1)

C38_ReportedMatchesHash ==
    \A t \in DOMAIN futures :
       (DeclaresHash(t) /\ futures[t].st \in {"Skipped", "Finished"}) =>
          SatisfiesHash(t)

\* The part of C38 that holds: a destination reported Skipped satisfies the
\* declared hash, and so does one reported Finished when the server served
\* the content the hash was declared for.
Served(t) ==
    verify_checksum(ServedBody(tasks[t].url), tasks[t].sha256, tasks[t].sha1)

ReportedMatchesWhenServed ==
    \A t \in DOMAIN futures :
       /\ (DeclaresHash(t) /\ futures[t].st = "Skipped") => SatisfiesHash(t)
       /\ (DeclaresHash(t) /\ futures[t].st = "Finished" /\ Served(t)) =>
             SatisfiesHash(t)

(***************************************************************************)
(* C39: under fair scheduling, with every request and file operation       *)
(* completing or failing, download_files eventually returns, for every     *)
(* task list (the empty one included) and every max_concurrent (0          *)
(* included): the semaphore and the bounded unordered buffer never         *)
(* deadlock, and every task eventually has its permit and its result.      *)
(***************************************************************************)
BatchReturned ==
    /\ batch_pc = "returned"
    /\ \A t \in DOMAIN futures : futures[t].st \in Settled

C39_EventuallyReturns == <>BatchReturned

\* The call has returned for max_concurrent = 0 and more tasks than permits.
C39_Witness ==
    /\ BatchReturned
    /\ max_concurrent = 0
    /\ Len(tasks) >= 2

\* The call has returned for the empty task list.
C39_WitnessEmpty ==
    /\ BatchReturned
    /\ Len(tasks) = 0

====
